---- MODULE Spec2Model ----
(***************************************************************************)
(* A model of the SequenceMatcher class of src/src/index.ts (difflib-ts).  *)
(*                                                                         *)
(* The matcher object is the record of its fields; every method is an      *)
(* operator from the object (and its arguments) to the object after the    *)
(* call, the value returned and whether the call threw.  The state machine *)
(* holds one matcher and the outcome of the last call made on it.          *)
(***************************************************************************)
EXTENDS Integers, Sequences, FiniteSets, TLC

VARIABLES
  a,               \* this.a
  b,               \* this.b
  isjunk,          \* this.isjunk
  autojunk,        \* this.autojunk
  b2j,             \* this.b2j
  isbjunk,         \* this.isbjunk (the junk set its closure captured)
  isbpopular,      \* this.isbpopular (the popular set its closure captured)
  fullbcount,      \* this.fullbcount
  matchingBlocks,  \* this.matchingBlocks
  opcodes,         \* this.opcodes
  call,            \* the last method called on the matcher
  args,            \* its arguments
  ret,             \* the value it returned
  threw,           \* whether it threw instead of returning
  queue,           \* the work queue of a getMatchingBlocks that is running
  found            \* the blocks it has found (its local matchingBlocks)

vars == <<a, b, isjunk, autojunk, b2j, isbjunk, isbpopular, fullbcount,
          matchingBlocks, opcodes, call, args, ret, threw, queue, found>>

-----------------------------------------------------------------------------
(* Bounds of the model *)

\* longest string given to a matcher whose whole life is followed (Spec)
MaxLen == 2
\* longest string given to a matcher that is built and queried once (SpecPure)
MaxPureLen == 4
\* longest string given to a matcher that is built and asked for one block or
\* for its blocks (SpecWindow)
MaxWinLen == 3
\* longest array of lines given to a matcher
MaxLines == 1
\* largest context size given to getGroupedOpcodes
MaxContext == 2
\* longest word and longest candidate given to getCloseMatches (SpecCalls)
MaxWordLen == 2
\* largest number of candidates given to getCloseMatches
MaxCandidates == 2
\* largest number of lines of a delta given to restore
MaxDeltaLen == 2
\* largest number of lines of a list given to ndiff (SpecNdiff)
MaxNdiffLines == 2
\* longest sequence given to unifiedDiff and contextDiff (SpecDiff)
MaxDiffLen == 3
\* largest number of copies of one line in a long list (SpecPopular)
MaxCopies == 5
\* largest end of a range given to _formatRangeUnified
MaxRange == 3
\* longest run of unchanged lines between two changes of the lists given to
\* unifiedDiff and contextDiff (SpecHunks)
MaxGap == 7
\* longest string given to a matcher that is built and asked for its groups
\* (SpecGroup)
MaxGroupLen == 5

\* the characters strings are made of
Chars == {"a", "b"}
\* the lines arrays are made of; "constructor" is a line like any other
Lines == {"a", "constructor"}
\* the choices of the isjunk argument: none, or a predicate true of "a" alone
JunkChoices == {<<>>, <<{"a"}>>}

-----------------------------------------------------------------------------
(* JavaScript values *)

\* undefined and null: a field declared with `!` and never assigned, or nulled
None == <<>>
Some(v) == <<v>>

\* a sequence argument: a string (its characters) or an array (its elements)
Str(s) == [str |-> TRUE, elts |-> s]
Arr(s) == [str |-> FALSE, elts |-> s]

RECURSIVE SeqsUpTo(_, _)
SeqsUpTo(S, n) ==
  IF n = 0 THEN {<<>>}
  ELSE LET shorter == SeqsUpTo(S, n - 1)
       IN shorter \cup {Append(s, e) : s \in shorter, e \in S}

\* x === cur: strings are compared by value, arrays by identity; sameObject
\* says that the caller passed the very array the matcher already holds
StrictEq(x, cur, sameObject) ==
  IF x.str THEN cur.str /\ x.elts = cur.elts
  ELSE ~cur.str /\ x.elts = cur.elts /\ sameObject

\* the property names every plain object inherits from Object.prototype
ObjectPrototypeKeys == {"constructor"}

\* a number, or a value that is no number (a function, or the string that
\* adding 1 to one gives, or NaN)
Num(n) == [num |-> TRUE, n |-> n]
NotNum == [num |-> FALSE, n |-> 0]

\* obj[key] || 0 on a plain object whose own values are truthy
GetOrZero(obj, key) ==
  IF key \in DOMAIN obj THEN obj[key]
  ELSE IF key \in ObjectPrototypeKeys THEN NotNum
  ELSE Num(0)

\* v + 1, v - 1 and v > 0
Plus1(v) == IF v.num THEN Num(v.n + 1) ELSE NotNum
Minus1(v) == IF v.num THEN Num(v.n - 1) ELSE NotNum
Positive(v) == v.num /\ v.n > 0

Min(x, y) == IF x < y THEN x ELSE y
Max(x, y) == IF x > y THEN x ELSE y

-----------------------------------------------------------------------------
(* Helper functions *)

\* the ratio 2.0 * matches / length as the fraction <<numerator, denominator>>
_calculateRatio(matches, length) ==
  IF length # 0 THEN <<2 * matches, length>> ELSE <<1, 1>>

\* r1 >= r2, r1 = r2 on the numbers two fractions stand for
RatioGeq(r1, r2) == r1[1] * r2[2] >= r2[1] * r1[2]
RatioEq(r1, r2) == r1[1] * r2[2] = r2[1] * r1[2]

\* _arrayCmp(x, y) < 0 on number triples
RECURSIVE ArrayLess(_, _, _)
ArrayLess(x, y, i) ==
  IF i > Min(Len(x), Len(y)) THEN Len(x) < Len(y)
  ELSE IF x[i] < y[i] THEN TRUE
  ELSE IF x[i] > y[i] THEN FALSE
  ELSE ArrayLess(x, y, i + 1)

_arrayCmp(x, y) ==
  IF ArrayLess(x, y, 1) THEN -1 ELSE IF ArrayLess(y, x, 1) THEN 1 ELSE 0

-----------------------------------------------------------------------------
(* The matcher object *)

Self ==
  [a |-> a, b |-> b, isjunk |-> isjunk, autojunk |-> autojunk, b2j |-> b2j,
   isbjunk |-> isbjunk, isbpopular |-> isbpopular, fullbcount |-> fullbcount,
   matchingBlocks |-> matchingBlocks, opcodes |-> opcodes]

\* the outcome of a call: the object after it, what it returned, whether it threw
Returned(self, value) == [self |-> self, ret |-> value, threw |-> FALSE]
Thrown(self) == [self |-> self, ret |-> <<>>, threw |-> TRUE]

\* minimum length of B for the popularity heuristic
PopularMinLen == 200

\* _chainB that takes an element with ntest occurrences for popular
_chainBAtLeast(self) ==
  LET elts == self.b.elts
      n == Len(elts)
      all == [e \in {elts[i] : i \in 1..n} |->
                SelectSeq([i \in 1..n |-> i - 1], LAMBDA p : elts[p + 1] = e)]
      junk == IF self.isjunk # None
              THEN {e \in DOMAIN all : e \in self.isjunk[1]}
              ELSE {}
      kept == DOMAIN all \ junk
      ntest == (n \div 100) + 1
      popular == IF self.autojunk /\ n >= PopularMinLen
                 THEN {e \in kept : Len(all[e]) >= ntest}
                 ELSE {}
  IN [self EXCEPT !.b2j = Some([e \in kept \ popular |-> all[e]]),
                  !.isbjunk = Some(junk),
                  !.isbpopular = Some(popular)]

\* _chainB: index B
_chainB(self) ==
  LET elts == self.b.elts
      n == Len(elts)
      all == [e \in {elts[i] : i \in 1..n} |->
                SelectSeq([i \in 1..n |-> i - 1], LAMBDA p : elts[p + 1] = e)]
      junk == IF self.isjunk # None
              THEN {e \in DOMAIN all : e \in self.isjunk[1]}
              ELSE {}
      kept == DOMAIN all \ junk
      ntest == (n \div 100) + 1
      popular == IF self.autojunk /\ n >= PopularMinLen
                 THEN {e \in kept : Len(all[e]) > ntest}
                 ELSE {}
  IN [self EXCEPT !.b2j = Some([e \in kept \ popular |-> all[e]]),
                  !.isbjunk = Some(junk),
                  !.isbpopular = Some(popular)]

\* setSeq1 that runs the index builder
setSeq1RunsChainB(self, x, sameObject) ==
  IF StrictEq(x, self.a, sameObject) THEN self
  ELSE _chainB([self EXCEPT !.a = x, !.matchingBlocks = None, !.opcodes = None])

\* setSeq1(x)
setSeq1(self, x, sameObject) ==
  IF StrictEq(x, self.a, sameObject) THEN self
  ELSE [self EXCEPT !.a = x, !.matchingBlocks = None, !.opcodes = None]

\* setSeq2(x)
setSeq2(self, x, sameObject) ==
  IF StrictEq(x, self.b, sameObject) THEN self
  ELSE _chainB([self EXCEPT !.b = x, !.matchingBlocks = None,
                            !.opcodes = None, !.fullbcount = None])

\* setSeqs(x, y)
setSeqs(self, x, sameA, y, sameB) == setSeq2(setSeq1(self, x, sameA), y, sameB)

\* the object as the field initialisers leave it, before the constructor body
FieldInit ==
  [a |-> Str(<<>>), b |-> Str(<<>>), isjunk |-> None, autojunk |-> TRUE,
   b2j |-> None, isbjunk |-> None, isbpopular |-> None, fullbcount |-> None,
   matchingBlocks |-> None, opcodes |-> None]

\* new SequenceMatcher(junk, x, y, auto)
Construct(junk, x, y, auto) ==
  setSeqs([FieldInit EXCEPT !.isjunk = junk, !.autojunk = auto],
          x, FALSE, y, FALSE)

-----------------------------------------------------------------------------
(* findLongestMatch *)

\* sequences are 0-indexed in the source
At(s, i) == s.elts[i + 1]

\* the inner loop over jarray, from its k-th entry on; acc holds newj2len
\* and the best block so far
RECURSIVE InnerLoop(_, _, _, _, _, _, _)
InnerLoop(jarray, k, i, blo, bhi, j2len, acc) ==
  IF k > Len(jarray) THEN acc
  ELSE LET j == jarray[k] IN
    IF j < blo THEN InnerLoop(jarray, k + 1, i, blo, bhi, j2len, acc)
    ELSE IF j >= bhi THEN acc
    ELSE LET size == (IF (j - 1) \in DOMAIN j2len THEN j2len[j - 1] ELSE 0) + 1
             new == (j :> size) @@ acc.newj2len
         IN InnerLoop(jarray, k + 1, i, blo, bhi, j2len,
              IF size > acc.bestsize
              THEN [newj2len |-> new, besti |-> (i - size) + 1,
                    bestj |-> (j - size) + 1, bestsize |-> size]
              ELSE [acc EXCEPT !.newj2len = new])

\* the outer loop over a[alo...ahi], from i on (b2j is defined); acc holds
\* j2len (as newj2len) and the best block so far
RECURSIVE OuterLoop(_, _, _, _, _, _)
OuterLoop(self, i, ahi, blo, bhi, acc) ==
  IF i >= ahi THEN acc
  ELSE LET map == self.b2j[1]
           jarray == IF At(self.a, i) \in DOMAIN map THEN map[At(self.a, i)] ELSE <<>>
       IN OuterLoop(self, i + 1, ahi, blo, bhi,
                    InnerLoop(jarray, 1, i, blo, bhi, acc.newj2len,
                              [acc EXCEPT !.newj2len = <<>>]))

\* isbjunk(x) of the matcher
IsBJunk(self, x) == x \in self.isbjunk[1]

\* the two loops that extend the block to the left and to the right, through
\* elements whose junk status is `wantJunk`
\* ExtendLeft without the comparison of the two elements
RECURSIVE ExtendLeftNoCompare(_, _, _, _, _)
ExtendLeftNoCompare(self, alo, blo, wantJunk, best) ==
  IF /\ best.besti > alo
     /\ best.bestj > blo
     /\ IsBJunk(self, At(self.b, best.bestj - 1)) = wantJunk
  THEN ExtendLeftNoCompare(self, alo, blo, wantJunk,
         [besti |-> best.besti - 1, bestj |-> best.bestj - 1,
          bestsize |-> best.bestsize + 1])
  ELSE best

\* ExtendLeft without the loop that takes in the junk
RECURSIVE ExtendLeftNoJunk(_, _, _, _, _)
ExtendLeftNoJunk(self, alo, blo, wantJunk, best) ==
  IF /\ ~wantJunk
     /\ best.besti > alo
     /\ best.bestj > blo
     /\ ~IsBJunk(self, At(self.b, best.bestj - 1))
     /\ At(self.a, best.besti - 1) = At(self.b, best.bestj - 1)
  THEN ExtendLeftNoJunk(self, alo, blo, wantJunk,
         [besti |-> best.besti - 1, bestj |-> best.bestj - 1,
          bestsize |-> best.bestsize + 1])
  ELSE best

RECURSIVE ExtendLeft(_, _, _, _, _)
ExtendLeft(self, alo, blo, wantJunk, best) ==
  IF /\ best.besti > alo
     /\ best.bestj > blo
     /\ IsBJunk(self, At(self.b, best.bestj - 1)) = wantJunk
     /\ At(self.a, best.besti - 1) = At(self.b, best.bestj - 1)
  THEN ExtendLeft(self, alo, blo, wantJunk,
         [besti |-> best.besti - 1, bestj |-> best.bestj - 1,
          bestsize |-> best.bestsize + 1])
  ELSE best

\* ExtendRight without the loop that takes in the junk
RECURSIVE ExtendRightNoJunk(_, _, _, _, _)
ExtendRightNoJunk(self, ahi, bhi, wantJunk, best) ==
  IF /\ ~wantJunk
     /\ best.besti + best.bestsize < ahi
     /\ best.bestj + best.bestsize < bhi
     /\ ~IsBJunk(self, At(self.b, best.bestj + best.bestsize))
     /\ At(self.a, best.besti + best.bestsize) = At(self.b, best.bestj + best.bestsize)
  THEN ExtendRightNoJunk(self, ahi, bhi, wantJunk, [best EXCEPT !.bestsize = @ + 1])
  ELSE best

RECURSIVE ExtendRight(_, _, _, _, _)
ExtendRight(self, ahi, bhi, wantJunk, best) ==
  IF /\ best.besti + best.bestsize < ahi
     /\ best.bestj + best.bestsize < bhi
     /\ IsBJunk(self, At(self.b, best.bestj + best.bestsize)) = wantJunk
     /\ At(self.a, best.besti + best.bestsize) = At(self.b, best.bestj + best.bestsize)
  THEN ExtendRight(self, ahi, bhi, wantJunk, [best EXCEPT !.bestsize = @ + 1])
  ELSE best

\* [besti, bestj, bestsize]
Triple(best) == <<best.besti, best.bestj, best.bestsize>>

\* findLongestMatch(alo, ahi, blo, bhi), for alo <= ahi and blo <= bhi.
\* _has(b2j, a[i]) throws a TypeError when b2j is undefined, which the first
\* iteration of the outer loop meets.  The longest junk-free block is
\* extended through non-junk elements, to the left and then to the right, and
\* then through junk elements, to the left and then to the right.
findLongestMatch(self, alo, ahi, blo, bhi) ==
  IF alo < ahi /\ self.b2j = None THEN Thrown(self)
  ELSE Returned(self,
         Triple(ExtendRight(self, ahi, bhi, TRUE,
                  ExtendLeft(self, alo, blo, TRUE,
                    ExtendRight(self, ahi, bhi, FALSE,
                      ExtendLeft(self, alo, blo, FALSE,
                        OuterLoop(self, alo, ahi, blo, bhi,
                          [newj2len |-> <<>>, besti |-> alo, bestj |-> blo,
                           bestsize |-> 0])))))))

-----------------------------------------------------------------------------
(* getMatchingBlocks *)

\* the body of the work loop that pushes the left window without a test
AfterMatchPushesLeft(st, w, x) ==
  IF x.threw THEN [threw |-> TRUE, queue |-> <<>>, blocks |-> <<>>]
  ELSE LET alo == w[1]
           ahi == w[2]
           blo == w[3]
           bhi == w[4]
           i == x.ret[1]
           j == x.ret[2]
           k == x.ret[3]
           q1 == Append(st.queue, <<alo, i, blo, j>>)
           q2 == IF i + k < ahi /\ j + k < bhi
                 THEN Append(q1, <<i + k, ahi, j + k, bhi>>) ELSE q1
       IN IF k # 0
          THEN [threw |-> FALSE, queue |-> q2, blocks |-> Append(st.blocks, x.ret)]
          ELSE st

\* the body of the work loop after findLongestMatch gave x on window w:
\* st holds the queue (w popped) and the blocks found
AfterMatch(st, w, x) ==
  IF x.threw THEN [threw |-> TRUE, queue |-> <<>>, blocks |-> <<>>]
  ELSE LET alo == w[1]
           ahi == w[2]
           blo == w[3]
           bhi == w[4]
           i == x.ret[1]
           j == x.ret[2]
           k == x.ret[3]
           q1 == IF alo < i /\ blo < j
                 THEN Append(st.queue, <<alo, i, blo, j>>) ELSE st.queue
           q2 == IF i + k < ahi /\ j + k < bhi
                 THEN Append(q1, <<i + k, ahi, j + k, bhi>>) ELSE q1
       IN IF k # 0
          THEN [threw |-> FALSE, queue |-> q2, blocks |-> Append(st.blocks, x.ret)]
          ELSE st

\* queue.pop() and findLongestMatch on the window popped
QueueStep(self, rest, w) ==
  AfterMatch(rest, w, findLongestMatch(self, w[1], w[2], w[3], w[4]))

\* the work loop: the queue is a stack, popped at its end
RECURSIVE QueueLoop(_, _)
QueueLoop(self, st) ==
  IF st.threw \/ st.queue = <<>> THEN st
  ELSE QueueLoop(self,
         QueueStep(self,
                   [st EXCEPT !.queue = SubSeq(@, 1, Len(@) - 1)],
                   st.queue[Len(st.queue)]))

\* blocks.sort(_arrayCmp)
RECURSIVE Insert(_, _)
Insert(sorted, x) ==
  IF sorted = <<>> THEN <<x>>
  ELSE IF _arrayCmp(x, Head(sorted)) < 0 THEN <<x>> \o sorted
  ELSE <<Head(sorted)>> \o Insert(Tail(sorted), x)

RECURSIVE SortBlocks(_)
SortBlocks(blocks) ==
  IF blocks = <<>> THEN <<>>
  ELSE Insert(SortBlocks(SubSeq(blocks, 1, Len(blocks) - 1)), blocks[Len(blocks)])

\* the loop that collapses adjacent equal blocks; cur is [i1, j1, k1]
RECURSIVE Collapse(_, _, _, _)
Collapse(blocks, n, cur, nonAdjacent) ==
  IF n > Len(blocks)
  THEN IF cur[3] # 0 THEN Append(nonAdjacent, cur) ELSE nonAdjacent
  ELSE LET nxt == blocks[n] IN
    IF cur[1] + cur[3] = nxt[1] /\ cur[2] + cur[3] = nxt[2]
    THEN Collapse(blocks, n + 1, <<cur[1], cur[2], cur[3] + nxt[3]>>, nonAdjacent)
    ELSE Collapse(blocks, n + 1, nxt,
                  IF cur[3] # 0 THEN Append(nonAdjacent, cur) ELSE nonAdjacent)

\* the end of getMatchingBlocks, after the work loop ended in st
SortedAndCollapsed(self, la, lb, st) ==
  IF st.threw THEN Thrown(self)
  ELSE LET nonAdjacent ==
             Append(Collapse(SortBlocks(st.blocks), 1, <<0, 0, 0>>, <<>>),
                    <<la, lb, 0>>)
       IN Returned([self EXCEPT !.matchingBlocks = Some(nonAdjacent)], nonAdjacent)

\* getMatchingBlocks()
getMatchingBlocks(self) ==
  IF self.matchingBlocks # None THEN Returned(self, self.matchingBlocks[1])
  ELSE SortedAndCollapsed(self, Len(self.a.elts), Len(self.b.elts),
         QueueLoop(self, [threw |-> FALSE,
                          queue |-> <<<<0, Len(self.a.elts), 0, Len(self.b.elts)>>>>,
                          blocks |-> <<>>]))

-----------------------------------------------------------------------------
(* getOpcodes and getGroupedOpcodes *)

\* the loop over the matching blocks, from the n-th on, with cursors i and j
RECURSIVE OpcodeLoop(_, _, _, _, _)
OpcodeLoop(blocks, n, i, j, answer) ==
  IF n > Len(blocks) THEN answer
  ELSE LET ai == blocks[n][1]
           bj == blocks[n][2]
           size == blocks[n][3]
           tag == IF i < ai /\ j < bj THEN "replace"
                  ELSE IF i < ai THEN "delete"
                  ELSE IF j < bj THEN "insert"
                  ELSE ""
           ans1 == IF tag # "" THEN Append(answer, <<tag, i, ai, j, bj>>) ELSE answer
           ans2 == IF size # 0
                   THEN Append(ans1, <<"equal", ai, ai + size, bj, bj + size>>)
                   ELSE ans1
       IN OpcodeLoop(blocks, n + 1, ai + size, bj + size, ans2)

\* the loop of getOpcodes over what getMatchingBlocks() gave
OpcodesFrom(m) ==
  IF m.threw THEN Thrown(m.self)
  ELSE LET answer == OpcodeLoop(m.ret, 1, 0, 0, <<>>)
       IN Returned([m.self EXCEPT !.opcodes = Some(answer)], answer)

\* getOpcodes(): this.opcodes is set to the empty answer before
\* getMatchingBlocks() is called, and stays so when that call throws
getOpcodes(self) ==
  IF self.opcodes # None THEN Returned(self, self.opcodes[1])
  ELSE OpcodesFrom(getMatchingBlocks([self EXCEPT !.opcodes = Some(<<>>)]))

\* the loop over codes, from the k-th on; acc holds groups and group
RECURSIVE GroupLoop(_, _, _, _)
GroupLoop(codes, k, n, acc) ==
  IF k > Len(codes) THEN acc
  ELSE LET tag == codes[k][1]
           i1 == codes[k][2]
           i2 == codes[k][3]
           j1 == codes[k][4]
           j2 == codes[k][5]
       IN IF tag = "equal" /\ i2 - i1 > n + n
          THEN GroupLoop(codes, k + 1, n,
                 [groups |-> Append(acc.groups,
                      Append(acc.group, <<tag, i1, Min(i2, i1 + n), j1, Min(j2, j1 + n)>>)),
                  group |-> << <<tag, Max(i1, i2 - n), i2, Max(j1, j2 - n), j2>> >>])
          ELSE GroupLoop(codes, k + 1, n,
                 [acc EXCEPT !.group = Append(@, <<tag, i1, i2, j1, j2>>)])

\* codes[0] clipped to its last n elements when it is an equal
FixLeading(codes, n) ==
  IF codes[1][1] = "equal"
  THEN [codes EXCEPT ![1] = <<@[1], Max(@[2], @[3] - n), @[3], Max(@[4], @[5] - n), @[5]>>]
  ELSE codes

\* FixTrailing without the clipping
FixTrailingNoClip(codes, n) == codes

\* codes[codes.length-1] clipped to its first n elements when it is an equal
FixTrailing(codes, n) ==
  IF codes[Len(codes)][1] = "equal"
  THEN [codes EXCEPT ![Len(codes)] =
          <<@[1], @[2], Min(@[3], @[2] + n), @[4], Min(@[5], @[4] + n)>>]
  ELSE codes

\* Groups that keeps a last group made of one equal
GroupsKeepsLoneEqual(r) ==
  IF r.group # <<>> THEN Append(r.groups, r.group) ELSE r.groups

\* the groups, once the loop over codes has ended with r
Groups(r) ==
  IF r.group # <<>> /\ ~(Len(r.group) = 1 /\ r.group[1][1] = "equal")
  THEN Append(r.groups, r.group)
  ELSE r.groups

\* getGroupedOpcodes after getOpcodes() gave o: codes is the array o, which is
\* this.opcodes itself unless it is empty, so the two fix-ups write this.opcodes
GroupsFrom(o, n) ==
  IF o.threw THEN Thrown(o.self)
  ELSE LET aliased == o.ret # <<>>
           codes0 == IF aliased THEN o.ret ELSE << <<"equal", 0, 1, 0, 1>> >>
           codes == FixTrailing(FixLeading(codes0, n), n)
           after == IF aliased THEN [o.self EXCEPT !.opcodes = Some(codes)] ELSE o.self
       IN Returned(after,
                   Groups(GroupLoop(codes, 1, n, [groups |-> <<>>, group |-> <<>>])))

\* getGroupedOpcodes(n)
getGroupedOpcodes(self, n) == GroupsFrom(getOpcodes(self), n)

-----------------------------------------------------------------------------
(* ratio, quickRatio and realQuickRatio *)

RECURSIVE SumSizes(_, _)
SumSizes(blocks, n) ==
  IF n > Len(blocks) THEN 0 ELSE blocks[n][3] + SumSizes(blocks, n + 1)

\* ratio over what getMatchingBlocks() gave
RatioFrom(m, length) ==
  IF m.threw THEN Thrown(m.self)
  ELSE Returned(m.self, _calculateRatio(SumSizes(m.ret, 1), length))

\* ratio()
ratio(self) ==
  RatioFrom(getMatchingBlocks(self), Len(self.a.elts) + Len(self.b.elts))

\* the loop that fills fullbcount from b, from its k-th element on
RECURSIVE CountLoop(_, _, _)
CountLoop(elts, k, count) ==
  IF k > Len(elts) THEN count
  ELSE CountLoop(elts, k + 1,
                 (elts[k] :> Plus1(GetOrZero(count, elts[k]))) @@ count)

\* AvailLoop without the decrement of avail
RECURSIVE AvailLoopNoDecrement(_, _, _, _)
AvailLoopNoDecrement(elts, k, count, acc) ==
  IF k > Len(elts) THEN acc
  ELSE LET elt == elts[k]
           numb == IF elt \in DOMAIN acc.avail THEN acc.avail[elt]
                   ELSE GetOrZero(count, elt)
       IN AvailLoopNoDecrement(elts, k + 1, count,
            [avail |-> (elt :> numb) @@ acc.avail,
             matches |-> IF Positive(numb) THEN acc.matches + 1 ELSE acc.matches])

\* the loop over a, from its k-th element on; acc holds avail and matches
RECURSIVE AvailLoop(_, _, _, _)
AvailLoop(elts, k, count, acc) ==
  IF k > Len(elts) THEN acc
  ELSE LET elt == elts[k]
           numb == IF elt \in DOMAIN acc.avail THEN acc.avail[elt]
                   ELSE GetOrZero(count, elt)
       IN AvailLoop(elts, k + 1, count,
            [avail |-> (elt :> Minus1(numb)) @@ acc.avail,
             matches |-> IF Positive(numb) THEN acc.matches + 1 ELSE acc.matches])

\* quickRatio once fullbcount is `count`
QuickRatioWith(self, count) ==
  Returned([self EXCEPT !.fullbcount = Some(count)],
           _calculateRatio(
             AvailLoop(self.a.elts, 1, count, [avail |-> <<>>, matches |-> 0]).matches,
             Len(self.a.elts) + Len(self.b.elts)))

\* quickRatio()
quickRatio(self) ==
  QuickRatioWith(self, IF self.fullbcount = None
                       THEN CountLoop(self.b.elts, 1, <<>>)
                       ELSE self.fullbcount[1])

\* realQuickRatio()
realQuickRatio(self) ==
  LET la == Len(self.a.elts)
      lb == Len(self.b.elts)
  IN Returned(self, _calculateRatio(Min(la, lb), la + lb))

-----------------------------------------------------------------------------
(* getCloseMatches *)

\* the values n and cutoff take when they are absent
DefaultMatches == 3
DefaultCutoff == <<6, 10>>

\* the order of JavaScript on characters
CharCode(c) == IF c = "a" THEN 97 ELSE 98

\* x < y on strings given as sequences of characters
RECURSIVE StringLess(_, _, _)
StringLess(x, y, i) ==
  IF i > Min(Len(x), Len(y)) THEN Len(x) < Len(y)
  ELSE IF CharCode(x[i]) < CharCode(y[i]) THEN TRUE
  ELSE IF CharCode(x[i]) > CharCode(y[i]) THEN FALSE
  ELSE StringLess(x, y, i + 1)

\* _arrayCmp(p, q) < 0 on pairs [score, candidate]
ScoredLess(p, q) ==
  \/ ~RatioGeq(p[1], q[1])
  \/ RatioEq(p[1], q[1]) /\ StringLess(p[2].elts, q[2].elts, 1)

\* result.sort(cmp).reverse(): the pairs in descending order
RECURSIVE InsertDescending(_, _)
InsertDescending(sorted, p) ==
  IF sorted = <<>> THEN <<p>>
  ELSE IF ScoredLess(Head(sorted), p) THEN <<p>> \o sorted
  ELSE <<Head(sorted)>> \o InsertDescending(Tail(sorted), p)

RECURSIVE SortDescending(_)
SortDescending(pairs) ==
  IF pairs = <<>> THEN <<>>
  ELSE InsertDescending(SortDescending(SubSeq(pairs, 1, Len(pairs) - 1)),
                        pairs[Len(pairs)])

\* Heap.nlargest(result, n, _arrayCmp): the n largest pairs, largest first
nlargest(pairs, n) == SubSeq(SortDescending(pairs), 1, Min(n, Len(pairs)))

\* the candidates of the pairs, in their order
StripScores(pairs) == [k \in 1..Len(pairs) |-> pairs[k][2]]

\* the state of the loop over the possibilities: the matcher, the pairs kept
CloseState(s, result, didThrow) == [s |-> s, result |-> result, threw |-> didThrow]

\* AfterRatio that wants s.ratio() above the cutoff
AfterRatioStrict(r, result, x, cutoff) ==
  IF r.threw THEN CloseState(r.self, result, TRUE)
  ELSE IF RatioGeq(r.ret, cutoff) /\ ~RatioEq(r.ret, cutoff)
  THEN CloseState(r.self, Append(result, <<r.ret, x>>), FALSE)
  ELSE CloseState(r.self, result, FALSE)

\* the test of s.ratio() and the push of [s.ratio(), x]
AfterRatio(r, result, x, cutoff) ==
  IF r.threw THEN CloseState(r.self, result, TRUE)
  ELSE IF RatioGeq(r.ret, cutoff)
  THEN CloseState(r.self, Append(result, <<r.ret, x>>), FALSE)
  ELSE CloseState(r.self, result, FALSE)

\* the test of s.quickRatio()
AfterQuickRatio(q, result, x, cutoff) ==
  IF RatioGeq(q.ret, cutoff) THEN AfterRatio(ratio(q.self), result, x, cutoff)
  ELSE CloseState(q.self, result, FALSE)

\* the test of s.realQuickRatio()
AfterSetSeq1(s, result, x, cutoff) ==
  IF RatioGeq(realQuickRatio(s).ret, cutoff)
  THEN AfterQuickRatio(quickRatio(s), result, x, cutoff)
  ELSE CloseState(s, result, FALSE)

\* the loop over the possibilities, from the k-th on
RECURSIVE CloseLoop(_, _, _, _)
CloseLoop(st, possibilities, k, cutoff) ==
  IF st.threw \/ k > Len(possibilities) THEN st
  ELSE CloseLoop(AfterSetSeq1(setSeq1(st.s, possibilities[k], FALSE), st.result,
                              possibilities[k], cutoff),
                 possibilities, k + 1, cutoff)

\* getCloseMatches once the loop has ended with st
ClosestOf(st, n) ==
  IF st.threw THEN Thrown(st.s)
  ELSE Returned(st.s, StripScores(nlargest(st.result, n)))

\* getCloseMatchesWith that takes n = 0
getCloseMatchesTakesZero(word, possibilities, n, cutoff) ==
  IF n < 0 THEN Thrown(FieldInit)
  ELSE IF ~(RatioGeq(cutoff, <<0, 1>>) /\ RatioGeq(<<1, 1>>, cutoff))
  THEN Thrown(FieldInit)
  ELSE ClosestOf(
         CloseLoop(CloseState(setSeq2(Construct(None, Str(<<>>), Str(<<>>), TRUE),
                                      word, FALSE),
                              <<>>, FALSE),
                   possibilities, 1, cutoff),
         n)

\* getCloseMatches with n and cutoff given or defaulted; cutoff is a fraction
getCloseMatchesWith(word, possibilities, n, cutoff) ==
  IF ~(n > 0) THEN Thrown(FieldInit)
  ELSE IF ~(RatioGeq(cutoff, <<0, 1>>) /\ RatioGeq(<<1, 1>>, cutoff))
  THEN Thrown(FieldInit)
  ELSE ClosestOf(
         CloseLoop(CloseState(setSeq2(Construct(None, Str(<<>>), Str(<<>>), TRUE),
                                      word, FALSE),
                              <<>>, FALSE),
                   possibilities, 1, cutoff),
         n)

\* getCloseMatches(word, possibilities, n, cutoff)
getCloseMatches(word, possibilities, n, cutoff) ==
  getCloseMatchesWith(word, possibilities,
                      IF n = None THEN DefaultMatches ELSE n[1],
                      IF cutoff = None THEN DefaultCutoff ELSE cutoff[1])

-----------------------------------------------------------------------------
(* restore *)

\* { 1: '- ', 2: '+ ' }[which] for a number
RestoreTag(which) ==
  IF which = 1 THEN Some("- ") ELSE IF which = 2 THEN Some("+ ") ELSE None

\* line.slice(0, 2) and line.slice(2)
SliceTo2(line) == SubSeq(line, 1, Min(2, Len(line)))
SliceFrom2(line) == SubSeq(line, 3, Len(line))

\* the loop over the lines of the delta, from the k-th on
RECURSIVE RestoreLoop(_, _, _)
RestoreLoop(delta, k, prefixes) ==
  IF k > Len(delta) THEN <<>>
  ELSE (IF SliceTo2(delta[k]) \in prefixes THEN <<SliceFrom2(delta[k])>> ELSE <<>>)
       \o RestoreLoop(delta, k + 1, prefixes)

\* restore(delta, which); it uses no matcher
restore(delta, which) ==
  IF RestoreTag(which) = None THEN Thrown(FieldInit)
  ELSE Returned(FieldInit, RestoreLoop(delta, 1, {"  ", RestoreTag(which)[1]}))

-----------------------------------------------------------------------------
(* Differ and ndiff *)

\* a line as the sequence a matcher compares: its characters
CharsOf(line) == Str([k \in 1..Len(line) |-> SubSeq(line, k, k)])

\* Array(n+1).join(ch): ch repeated n times
RECURSIVE Repeat(_, _)
Repeat(ch, n) == IF n <= 0 THEN "" ELSE ch \o Repeat(ch, n - 1)

\* _countLeading(line, ch), counting from the k-th character on
RECURSIVE CountLeadingFrom(_, _, _)
CountLeadingFrom(line, ch, k) ==
  IF k <= Len(line) /\ SubSeq(line, k, k) = ch
  THEN 1 + CountLeadingFrom(line, ch, k + 1)
  ELSE 0

_countLeading(line, ch) == CountLeadingFrom(line, ch, 1)

\* tags.replace(/\s+$/, '') on a string of tags
RECURSIVE StripTrailing(_)
StripTrailing(tags) ==
  IF tags # "" /\ SubSeq(tags, Len(tags), Len(tags)) = " "
  THEN StripTrailing(SubSeq(tags, 1, Len(tags) - 1))
  ELSE tags

\* _dump(tag, x, lo, hi)
_dump(tag, x, lo, hi) == [k \in 1..(hi - lo) |-> tag \o " " \o x[lo + k]]

\* _plainReplace(x, alo, ahi, y, blo, bhi)
_plainReplace(x, alo, ahi, y, blo, bhi) ==
  IF bhi - blo < ahi - alo
  THEN _dump("+", y, blo, bhi) \o _dump("-", x, alo, ahi)
  ELSE _dump("-", x, alo, ahi) \o _dump("+", y, blo, bhi)

\* the question line of _qformat written with the prefix of a deleted line
GuideAsDeletion(common, tags) ==
  IF Len(tags) # 0 THEN <<"- " \o Repeat("\t", common) \o tags \o "\n">> ELSE <<>>

\* the question line of _qformat, when there are tags
Guide(common, tags) ==
  IF Len(tags) # 0 THEN <<"? " \o Repeat("\t", common) \o tags \o "\n">> ELSE <<>>

\* _qformat once common is known
QformatWith(aline, bline, atags, btags, common) ==
  <<"- " \o aline>>
  \o Guide(common, StripTrailing(SubSeq(atags, common + 1, Len(atags))))
  \o <<"+ " \o bline>>
  \o Guide(common, StripTrailing(SubSeq(btags, common + 1, Len(btags))))

\* s.slice(0, n)
SliceTo(str, n) == SubSeq(str, 1, Min(n, Len(str)))

\* _qformat(aline, bline, atags, btags)
_qformat(aline, bline, atags, btags) ==
  LET c1 == Min(_countLeading(aline, "\t"), _countLeading(bline, "\t"))
      c2 == Min(c1, _countLeading(SliceTo(atags, c1), " "))
      c3 == Min(c2, _countLeading(SliceTo(btags, c2), " "))
  IN QformatWith(aline, bline, atags, btags, c3)

\* atags and btags of the opcodes of two lines, from the k-th opcode on
RECURSIVE TagLoop(_, _, _)
TagLoop(codes, k, tags) ==
  IF k > Len(codes) THEN tags
  ELSE LET tag == codes[k][1]
           la == codes[k][3] - codes[k][2]
           lb == codes[k][5] - codes[k][4]
       IN TagLoop(codes, k + 1,
            CASE tag = "replace" ->
                   [atags |-> tags.atags \o Repeat("^", la),
                    btags |-> tags.btags \o Repeat("^", lb)]
              [] tag = "delete" ->
                   [tags EXCEPT !.atags = @ \o Repeat("-", la)]
              [] tag = "insert" ->
                   [tags EXCEPT !.btags = @ \o Repeat("+", lb)]
              [] tag = "equal" ->
                   [atags |-> tags.atags \o Repeat(" ", la),
                    btags |-> tags.btags \o Repeat(" ", lb)])

\* the thresholds of _fancyReplace
InitialBestRatio == <<74, 100>>
SyncCutoff == <<75, 100>>

\* the outcome of a function that returns lines, or throws
Emitted(lines) == [lines |-> lines, threw |-> FALSE]
LinesThrown == [lines |-> <<>>, threw |-> TRUE]

\* two outcomes one after the other
Then(first, second) ==
  IF first.threw \/ second.threw THEN LinesThrown
  ELSE Emitted(first.lines \o second.lines)

\* the test of cruncher.ratio() in the scan, and the new best pair
ScanAfterRatio(sc, r, i, j) ==
  IF r.threw THEN [sc EXCEPT !.threw = TRUE]
  ELSE IF ~RatioGeq(sc.bestRatio, r.ret)
  THEN [sc EXCEPT !.cruncher = r.self, !.bestRatio = r.ret,
                  !.besti = Some(i), !.bestj = Some(j)]
  ELSE [sc EXCEPT !.cruncher = r.self]

\* the test of cruncher.quickRatio() in the scan
ScanAfterQuickRatio(sc, q, i, j) ==
  IF ~RatioGeq(sc.bestRatio, q.ret) THEN ScanAfterRatio(sc, ratio(q.self), i, j)
  ELSE [sc EXCEPT !.cruncher = q.self]

\* the scan after cruncher.setSeq1(ai): the test of cruncher.realQuickRatio()
ScanAfterSetSeq1(sc, s, i, j) ==
  IF ~RatioGeq(sc.bestRatio, realQuickRatio(s).ret)
  THEN ScanAfterQuickRatio(sc, quickRatio(s), i, j)
  ELSE [sc EXCEPT !.cruncher = s]

\* the body of the inner loop that keeps the last identical pair it sees
ScanPairKeepsLast(sc, ai, bj, i, j) ==
  IF ai = bj
  THEN [sc EXCEPT !.eqi = Some(i), !.eqj = Some(j)]
  ELSE ScanAfterSetSeq1(sc, setSeq1(sc.cruncher, CharsOf(ai), FALSE), i, j)

\* the body of the inner loop of the scan, on lines ai = x[i] and bj = y[j]
ScanPair(sc, ai, bj, i, j) ==
  IF ai = bj
  THEN IF sc.eqi = None THEN [sc EXCEPT !.eqi = Some(i), !.eqj = Some(j)] ELSE sc
  ELSE ScanAfterSetSeq1(sc, setSeq1(sc.cruncher, CharsOf(ai), FALSE), i, j)

\* the inner loop of the scan, over x[alo...ahi] from i on
RECURSIVE ScanRow(_, _, _, _, _, _)
ScanRow(sc, x, i, ahi, bj, j) ==
  IF sc.threw \/ i >= ahi THEN sc
  ELSE ScanRow(ScanPair(sc, x[i + 1], bj, i, j), x, i + 1, ahi, bj, j)

\* the outer loop of the scan, over y[blo...bhi] from j on
RECURSIVE ScanRows(_, _, _, _, _, _, _)
ScanRows(sc, x, alo, ahi, y, j, bhi) ==
  IF sc.threw \/ j >= bhi THEN sc
  ELSE ScanRows(ScanRow([sc EXCEPT !.cruncher = setSeq2(@, CharsOf(y[j + 1]), FALSE)],
                        x, alo, ahi, y[j + 1], j),
                x, alo, ahi, y, j + 1, bhi)

\* the lines of a pair of near lines, once cruncher.getOpcodes() gave o
NearPair(aelt, belt, o) ==
  IF o.threw THEN LinesThrown
  ELSE Emitted(_qformat(aelt, belt,
                      TagLoop(o.ret, 1, [atags |-> "", btags |-> ""]).atags,
                      TagLoop(o.ret, 1, [atags |-> "", btags |-> ""]).btags))

\* the lines of the sync pair (besti, bestj); identical says that eqi is kept
SyncPair(sc, aelt, belt, identical) ==
  IF identical THEN Emitted(<<"  " \o aelt>>)
  ELSE NearPair(aelt, belt,
                getOpcodes(setSeqs(sc.cruncher, CharsOf(aelt), FALSE,
                                   CharsOf(belt), FALSE)))

RECURSIVE _fancyReplace(_, _, _, _, _, _, _)
RECURSIVE _fancyHelper(_, _, _, _, _, _, _)

\* _fancyReplace after the scan, synchronised on (besti, bestj)
Synced(sc, x, alo, ahi, y, blo, bhi, charjunk, besti, bestj, identical) ==
  Then(_fancyHelper(x, alo, besti, y, blo, bestj, charjunk),
       Then(SyncPair(sc, x[besti + 1], y[bestj + 1], identical),
            _fancyHelper(x, besti + 1, ahi, y, bestj + 1, bhi, charjunk)))

\* _fancyReplace after the scan ended in sc
AfterScan(sc, x, alo, ahi, y, blo, bhi, charjunk) ==
  IF sc.threw THEN LinesThrown
  ELSE IF ~RatioGeq(sc.bestRatio, SyncCutoff)
  THEN IF sc.eqi = None THEN Emitted(_plainReplace(x, alo, ahi, y, blo, bhi))
       ELSE Synced(sc, x, alo, ahi, y, blo, bhi, charjunk, sc.eqi[1], sc.eqj[1], TRUE)
  ELSE Synced(sc, x, alo, ahi, y, blo, bhi, charjunk, sc.besti[1], sc.bestj[1], FALSE)

\* _fancyReplace(x, alo, ahi, y, blo, bhi) of a Differ with this charjunk
_fancyReplace(x, alo, ahi, y, blo, bhi, charjunk) ==
  AfterScan(ScanRows([cruncher |-> Construct(charjunk, Str(<<>>), Str(<<>>), TRUE),
                      bestRatio |-> InitialBestRatio, besti |-> None, bestj |-> None,
                      eqi |-> None, eqj |-> None, threw |-> FALSE],
                     x, alo, ahi, y, blo, bhi),
            x, alo, ahi, y, blo, bhi, charjunk)

\* _fancyHelper(x, alo, ahi, y, blo, bhi)
_fancyHelper(x, alo, ahi, y, blo, bhi, charjunk) ==
  IF alo < ahi
  THEN IF blo < bhi THEN _fancyReplace(x, alo, ahi, y, blo, bhi, charjunk)
       ELSE Emitted(_dump("-", x, alo, ahi))
  ELSE IF blo < bhi THEN Emitted(_dump("+", y, blo, bhi))
  ELSE Emitted(<<>>)

\* the lines of one opcode of compare
CompareOne(x, y, code, charjunk) ==
  CASE code[1] = "replace" ->
         _fancyReplace(x, code[2], code[3], y, code[4], code[5], charjunk)
    [] code[1] = "delete" -> Emitted(_dump("-", x, code[2], code[3]))
    [] code[1] = "insert" -> Emitted(_dump("+", y, code[4], code[5]))
    [] code[1] = "equal" -> Emitted(_dump(" ", x, code[2], code[3]))
    [] OTHER -> LinesThrown

\* the loop of compare over the opcodes, from the k-th on
RECURSIVE CompareLoop(_, _, _, _, _)
CompareLoop(x, y, codes, k, charjunk) ==
  IF k > Len(codes) THEN Emitted(<<>>)
  ELSE Then(CompareOne(x, y, codes[k], charjunk),
            CompareLoop(x, y, codes, k + 1, charjunk))

\* compare once cruncher.getOpcodes() gave o
CompareFrom(x, y, o, charjunk) ==
  IF o.threw THEN LinesThrown ELSE CompareLoop(x, y, o.ret, 1, charjunk)

\* new Differ(linejunk, charjunk).compare(x, y) on two lists of lines
compare(x, y, linejunk, charjunk) ==
  CompareFrom(x, y, getOpcodes(Construct(linejunk, Arr(x), Arr(y), TRUE)), charjunk)

\* IS_CHARACTER_JUNK, as the set of the characters it is true of
IS_CHARACTER_JUNK == {" ", "\t"}

\* ndiff(x, y, linejunk, charjunk)
ndiff(x, y, linejunk, charjunk) ==
  compare(x, y, linejunk, IF charjunk = None THEN Some(IS_CHARACTER_JUNK) ELSE charjunk)

-----------------------------------------------------------------------------
(* unifiedDiff and contextDiff *)

\* the context size getGroupedOpcodes takes when it is given none
DefaultContext == 3

\* getGroupedOpcodes()
getGroupedOpcodesDefault(self) == getGroupedOpcodes(self, DefaultContext)

\* an option of param, '' when it is absent
OrEmpty(v) == IF v = None THEN "" ELSE v[1]

\* param.lineterm, '\n' when it is absent
OrNewline(v) == IF v = None THEN "\n" ELSE v[1]

\* x.slice(lo, hi): the elements (lines of an array, characters of a string)
Slice(x, lo, hi) == SubSeq(x.elts, lo + 1, hi)

\* each line of `lines` with `prefix` before it
Prefixed(prefix, lines) == [k \in 1..Len(lines) |-> prefix \o lines[k]]

\* _formatRangeUnified without the step back of an empty range
_formatRangeUnifiedNoStepBack(start, stop) ==
  LET length == stop - start
  IN IF length = 1 THEN ToString(start + 1)
     ELSE ToString(start + 1) \o "," \o ToString(length)

_formatRangeUnified(start, stop) ==
  LET length == stop - start
      beginning == IF length = 0 THEN start ELSE start + 1
  IN IF length = 1 THEN ToString(start + 1)
     ELSE ToString(beginning) \o "," \o ToString(length)

_formatRangeContext(start, stop) ==
  LET length == stop - start
      beginning == IF length = 0 THEN start ELSE start + 1
  IN IF length <= 1 THEN ToString(beginning)
     ELSE ToString(beginning) \o "," \o ToString((beginning + length) - 1)

\* the date of a header line
DatePart(date) == IF date # "" THEN "\t" \o date ELSE ""

\* the lines of the opcodes of a group without the lines of B of a replace
RECURSIVE UnifiedBodyDeletes(_, _, _, _)
UnifiedBodyDeletes(x, y, group, k) ==
  IF k > Len(group) THEN <<>>
  ELSE LET tag == group[k][1]
           fromA == Slice(x, group[k][2], group[k][3])
           fromB == Slice(y, group[k][4], group[k][5])
       IN (IF tag = "equal" THEN Prefixed(" ", fromA)
           ELSE (IF tag \in {"replace", "delete"} THEN Prefixed("-", fromA) ELSE <<>>)
                \o (IF tag \in {"insert"} THEN Prefixed("+", fromB) ELSE <<>>))
          \o UnifiedBodyDeletes(x, y, group, k + 1)

\* the lines of the opcodes of a group of unifiedDiff, from the k-th on
RECURSIVE UnifiedBody(_, _, _, _)
UnifiedBody(x, y, group, k) ==
  IF k > Len(group) THEN <<>>
  ELSE LET tag == group[k][1]
           fromA == Slice(x, group[k][2], group[k][3])
           fromB == Slice(y, group[k][4], group[k][5])
       IN (IF tag = "equal" THEN Prefixed(" ", fromA)
           ELSE (IF tag \in {"replace", "delete"} THEN Prefixed("-", fromA) ELSE <<>>)
                \o (IF tag \in {"replace", "insert"} THEN Prefixed("+", fromB) ELSE <<>>))
          \o UnifiedBody(x, y, group, k + 1)

\* the lines of a group of unifiedDiff
UnifiedHunk(x, y, group, lineterm) ==
  <<"@@ -" \o _formatRangeUnified(group[1][2], group[Len(group)][3])
     \o " +" \o _formatRangeUnified(group[1][4], group[Len(group)][5])
     \o " @@" \o lineterm>>
  \o UnifiedBody(x, y, group, 1)

\* the loop of unifiedDiff over the groups, from the k-th on
RECURSIVE UnifiedHunks(_, _, _, _, _)
UnifiedHunks(x, y, groups, k, lineterm) ==
  IF k > Len(groups) THEN <<>>
  ELSE UnifiedHunk(x, y, groups[k], lineterm)
       \o UnifiedHunks(x, y, groups, k + 1, lineterm)

\* unifiedDiff once getGroupedOpcodes() gave g
UnifiedFrom(x, y, param, g) ==
  IF g.threw THEN Thrown(g.self)
  ELSE Returned(g.self,
         IF g.ret = <<>> THEN <<>>
         ELSE <<"--- " \o OrEmpty(param.fromfile)
                  \o DatePart(OrEmpty(param.fromfiledate)) \o OrNewline(param.lineterm),
                "+++ " \o OrEmpty(param.tofile)
                  \o DatePart(OrEmpty(param.tofiledate)) \o OrNewline(param.lineterm)>>
              \o UnifiedHunks(x, y, g.ret, 1, OrNewline(param.lineterm)))

\* unifiedDiff(x, y, param): param.n is read and not used
unifiedDiff(x, y, param) ==
  UnifiedFrom(x, y, param, getGroupedOpcodesDefault(Construct(None, x, y, TRUE)))

\* _any of the test `tag in tags` over the opcodes of a group
AnyTagIn(group, tags) == \E k \in 1..Len(group) : group[k][1] \in tags

\* the prefix table of contextDiff
ContextPrefix(tag) ==
  CASE tag = "insert" -> "+ "
    [] tag = "delete" -> "- "
    [] tag = "replace" -> "! "
    [] tag = "equal" -> "  "

\* the lines of one side of a group of contextDiff, from the k-th opcode on;
\* lo and hi are the positions of the side's range in an opcode
RECURSIVE ContextSide(_, _, _, _, _, _)
ContextSide(x, group, k, skipped, lo, hi) ==
  IF k > Len(group) THEN <<>>
  ELSE (IF group[k][1] # skipped
        THEN Prefixed(ContextPrefix(group[k][1]), Slice(x, group[k][lo], group[k][hi]))
        ELSE <<>>)
       \o ContextSide(x, group, k + 1, skipped, lo, hi)

\* the lines of a group of contextDiff
ContextHunk(x, y, group, lineterm) ==
  <<"***************" \o lineterm,
    "*** " \o _formatRangeContext(group[1][2], group[Len(group)][3])
      \o " ****" \o lineterm>>
  \o (IF AnyTagIn(group, {"replace", "delete"})
      THEN ContextSide(x, group, 1, "insert", 2, 3) ELSE <<>>)
  \o <<"--- " \o _formatRangeContext(group[1][4], group[Len(group)][5])
      \o " ----" \o lineterm>>
  \o (IF AnyTagIn(group, {"replace", "insert"})
      THEN ContextSide(y, group, 1, "delete", 4, 5) ELSE <<>>)

\* contextDiff once getGroupedOpcodes() gave g: the lines of a group are
\* pushed inside `if (!started)`, so for the first group only
ContextFrom(x, y, param, g) ==
  IF g.threw THEN Thrown(g.self)
  ELSE Returned(g.self,
         IF g.ret = <<>> THEN <<>>
         ELSE <<"*** " \o OrEmpty(param.fromfile)
                  \o DatePart(OrEmpty(param.fromfiledate)) \o OrNewline(param.lineterm),
                "--- " \o OrEmpty(param.tofile)
                  \o DatePart(OrEmpty(param.tofiledate)) \o OrNewline(param.lineterm)>>
              \o ContextHunk(x, y, g.ret[1], OrNewline(param.lineterm)))

\* contextDiff(x, y, param): param.n is read and not used
contextDiff(x, y, param) ==
  ContextFrom(x, y, param, getGroupedOpcodesDefault(Construct(None, x, y, TRUE)))

-----------------------------------------------------------------------------
(* The state machine *)

\* the sequences a caller passes: strings of at most n characters and arrays
\* of at most MaxLines lines
Inputs(n) ==
  {Str(s) : s \in SeqsUpTo(Chars, n)} \cup {Arr(s) : s \in SeqsUpTo(Lines, MaxLines)}

\* the pairs of sequences setSeqs is given: of one kind, and of at most n
\* elements together
PairInputs(n) ==
  {p \in Inputs(n) \X Inputs(n) :
     p[1].str = p[2].str /\ Len(p[1].elts) + Len(p[2].elts) <= n}

\* the windows alo <= ahi, blo <= bhi inside the two sequences
Windows(self) ==
  LET la == Len(self.a.elts)
      lb == Len(self.b.elts)
  IN {w \in (0..la) \X (0..la) \X (0..lb) \X (0..lb) : w[1] <= w[2] /\ w[3] <= w[4]}

\* sameObject can be true only of the array the matcher holds
MayBeSame(x, cur, sameObject) == sameObject => (~x.str /\ x = cur)

Install(self) ==
  /\ a = self.a
  /\ b = self.b
  /\ isjunk = self.isjunk
  /\ autojunk = self.autojunk
  /\ b2j = self.b2j
  /\ isbjunk = self.isbjunk
  /\ isbpopular = self.isbpopular
  /\ fullbcount = self.fullbcount
  /\ matchingBlocks = self.matchingBlocks
  /\ opcodes = self.opcodes
  /\ queue = <<>>
  /\ found = <<>>

\* a call of method `name` with arguments `arguments` and outcome `out`
Do(name, arguments, out) ==
  /\ a' = out.self.a
  /\ b' = out.self.b
  /\ isjunk' = out.self.isjunk
  /\ autojunk' = out.self.autojunk
  /\ b2j' = out.self.b2j
  /\ isbjunk' = out.self.isbjunk
  /\ isbpopular' = out.self.isbpopular
  /\ fullbcount' = out.self.fullbcount
  /\ matchingBlocks' = out.self.matchingBlocks
  /\ opcodes' = out.self.opcodes
  /\ call' = name
  /\ args' = arguments
  /\ ret' = out.ret
  /\ threw' = out.threw
  /\ queue' = <<>>
  /\ found' = <<>>

\* new SequenceMatcher(junk, x, y, auto) with sequences of at most n characters
Constructed(n) ==
  \E junk \in JunkChoices, x \in Inputs(n), y \in Inputs(n), auto \in BOOLEAN :
    /\ Install(Construct(junk, x, y, auto))
    /\ call = "new"
    /\ args = <<>>
    /\ ret = <<>>
    /\ threw = FALSE

SetSeq1 ==
  \E x \in Inputs(MaxLen), same \in BOOLEAN :
    /\ MayBeSame(x, a, same)
    /\ Do("setSeq1", <<x>>, Returned(setSeq1(Self, x, same), <<>>))

SetSeq2 ==
  \E x \in Inputs(MaxLen), same \in BOOLEAN :
    /\ MayBeSame(x, b, same)
    /\ Do("setSeq2", <<x>>, Returned(setSeq2(Self, x, same), <<>>))

SetSeqs ==
  \E p \in PairInputs(MaxLen), sameA \in BOOLEAN, sameB \in BOOLEAN :
    /\ MayBeSame(p[1], a, sameA)
    /\ MayBeSame(p[2], b, sameB)
    /\ Do("setSeqs", p, Returned(setSeqs(Self, p[1], sameA, p[2], sameB), <<>>))

FindLongestMatch ==
  \E w \in Windows(Self) :
    Do("findLongestMatch", w, findLongestMatch(Self, w[1], w[2], w[3], w[4]))

\* findLongestMatch on the whole of both sequences
FindLongestMatchWhole ==
  LET w == <<0, Len(a.elts), 0, Len(b.elts)>>
  IN Do("findLongestMatch", w, findLongestMatch(Self, w[1], w[2], w[3], w[4]))

GetMatchingBlocks == Do("getMatchingBlocks", <<>>, getMatchingBlocks(Self))

GetOpcodes == Do("getOpcodes", <<>>, getOpcodes(Self))

GetGroupedOpcodes ==
  \E n \in 0..MaxContext : Do("getGroupedOpcodes", <<n>>, getGroupedOpcodes(Self, n))

Ratio == Do("ratio", <<>>, ratio(Self))

QuickRatio == Do("quickRatio", <<>>, quickRatio(Self))

RealQuickRatio == Do("realQuickRatio", <<>>, realQuickRatio(Self))

\* one matcher through its whole life
Init == Constructed(MaxLen)

Next ==
  \/ SetSeq1
  \/ SetSeq2
  \/ SetSeqs
  \/ FindLongestMatchWhole
  \/ GetMatchingBlocks
  \/ GetOpcodes
  \/ GetGroupedOpcodes
  \/ Ratio
  \/ QuickRatio
  \/ RealQuickRatio

Spec == Init /\ [][Next]_vars

\* a matcher that is constructed and asked one question
InitPure == Constructed(MaxPureLen)

NextPure ==
  /\ call = "new"
  /\ \/ GetMatchingBlocks
     \/ GetOpcodes
     \/ GetGroupedOpcodes
     \/ Ratio
     \/ QuickRatio
     \/ RealQuickRatio

SpecPure == InitPure /\ [][NextPure]_vars

\* one matcher through its life without getGroupedOpcodes and findLongestMatch
NextCore ==
  \/ SetSeq1
  \/ SetSeq2
  \/ SetSeqs
  \/ GetMatchingBlocks
  \/ GetOpcodes
  \/ Ratio
  \/ QuickRatio

SpecCore == Init /\ [][NextCore]_vars

\* a matcher that is constructed and asked for one longest match, or its blocks
InitWindow == Constructed(MaxWinLen)

NextWindow ==
  /\ call = "new"
  /\ \/ FindLongestMatch
     \/ GetMatchingBlocks

SpecWindow == InitWindow /\ [][NextWindow]_vars

\* a matcher that is constructed and asked for its grouped opcodes, again and
\* again
InitGroup == Constructed(MaxGroupLen)

NextGroup == GetGroupedOpcodes

SpecGroup == InitGroup /\ [][NextGroup]_vars

\* the param objects given to unifiedDiff and contextDiff
DiffParams ==
  [fromfile : {None, Some("f")}, tofile : {Some("t")},
   fromfiledate : {None, Some("d")}, tofiledate : {None},
   n : {None, Some(0), Some(1)}, lineterm : {None, Some("")}]

\* unifiedDiff(a, b, param) on the two sequences; the matcher shown after the
\* call is the one the function built
UnifiedDiff ==
  \E param \in DiffParams : Do("unifiedDiff", <<param>>, unifiedDiff(a, b, param))

ContextDiff ==
  \E param \in DiffParams : Do("contextDiff", <<param>>, contextDiff(a, b, param))

\* two sequences, and one call that groups or renders their differences
InitDiff == Constructed(MaxDiffLen)

NextDiff ==
  /\ call = "new"
  /\ \/ GetGroupedOpcodes
     \/ UnifiedDiff
     \/ ContextDiff

SpecDiff == InitDiff /\ [][NextDiff]_vars

\* the lines 1, ..., g that two lists share
Run(g) == [k \in 1..g |-> ToString(k)]

\* the lists given to unifiedDiff and contextDiff: a shared run with a line, or
\* none, before it and after it; the runs are empty, short enough for the
\* changes at both ends to fall in one group, or too long for that
Edges == {<<>>, <<"a">>, <<"-b">>}
Gaps == {0, 2 * DefaultContext, MaxGap}
HunkLists == {Arr(e1 \o Run(g) \o e2) : e1 \in Edges, e2 \in Edges, g \in Gaps}

\* two lists, and one call that groups or renders their differences
InitHunks ==
  \E x \in HunkLists, y \in HunkLists :
    /\ Install(Construct(None, x, y, TRUE))
    /\ call = "new"
    /\ args = <<>>
    /\ ret = <<>>
    /\ threw = FALSE

NextHunks ==
  /\ call = "new"
  /\ \/ GetGroupedOpcodes
     \/ UnifiedDiff
     \/ ContextDiff

SpecHunks == InitHunks /\ [][NextHunks]_vars

\* a list of `length` lines: ca copies of "a", cb copies of "b", and lines
\* that occur 3 times each (the last one maybe less)
LongList(ca, cb, length) ==
  Arr([k \in 1..length |->
         IF k <= ca THEN "a"
         ELSE IF k <= ca + cb THEN "b"
         ELSE ToString((k - ca - cb - 1) \div 3)])

\* the lengths of the long lists: below, at and above the length at which the
\* popularity heuristic starts
LongLengths ==
  {PopularMinLen - 1, PopularMinLen, PopularMinLen + PopularMinLen \div 2}

LongLists ==
  {LongList(ca, cb, length) :
     ca \in 0..MaxCopies, cb \in 0..MaxCopies, length \in LongLengths}

\* setSeq2 with a long list
SetSeq2Long ==
  \E y \in LongLists : Do("setSeq2", <<y>>, Returned(setSeq2(Self, y, FALSE), <<>>))

\* a matcher of two empty sequences that is given a long second sequence
InitPopular ==
  \E junk \in JunkChoices, y \in {Str(<<>>), Arr(<<>>)}, auto \in BOOLEAN :
    /\ Install(Construct(junk, Str(<<>>), y, auto))
    /\ call = "new"
    /\ args = <<>>
    /\ ret = <<>>
    /\ threw = FALSE

NextPopular ==
  /\ call = "new"
  /\ SetSeq2Long

SpecPopular == InitPopular /\ [][NextPopular]_vars

\* getMatchingBlocks() is entered: the early return is not taken, and the
\* queue holds the whole of both sequences
EnterGetMatchingBlocks ==
  /\ call = "new"
  /\ matchingBlocks = None
  /\ call' = "getMatchingBlocks.while"
  /\ queue' = <<<<0, Len(a.elts), 0, Len(b.elts)>>>>
  /\ found' = <<>>
  /\ UNCHANGED <<a, b, isjunk, autojunk, b2j, isbjunk, isbpopular, fullbcount,
                 matchingBlocks, opcodes, args, ret, threw>>

\* the end of one turn of the work loop that ended in st
AfterTurn(st) ==
  IF st.threw THEN Do("getMatchingBlocks", <<>>, Thrown(Self))
  ELSE /\ queue' = st.queue
       /\ found' = st.blocks
       /\ UNCHANGED <<a, b, isjunk, autojunk, b2j, isbjunk, isbpopular, fullbcount,
                      matchingBlocks, opcodes, call, args, ret, threw>>

\* one turn of the work loop: queue.pop(), findLongestMatch, the pushes
Turn ==
  /\ call = "getMatchingBlocks.while"
  /\ queue # <<>>
  /\ AfterTurn(QueueStep(Self,
                         [threw |-> FALSE,
                          queue |-> SubSeq(queue, 1, Len(queue) - 1),
                          blocks |-> found],
                         queue[Len(queue)]))

\* the queue is empty: the blocks are sorted, collapsed, stored and returned
LeaveGetMatchingBlocks ==
  /\ call = "getMatchingBlocks.while"
  /\ queue = <<>>
  /\ Do("getMatchingBlocks", <<>>,
        SortedAndCollapsed(Self, Len(a.elts), Len(b.elts),
                           [threw |-> FALSE, queue |-> <<>>, blocks |-> found]))

\* a matcher that is constructed and asked for its matching blocks, the work
\* loop taken turn by turn
NextQueue ==
  \/ EnterGetMatchingBlocks
  \/ Turn
  \/ LeaveGetMatchingBlocks

InitQueue == Constructed(MaxPureLen)

\* ENABLED <<Turn>>_vars: a turn pops a window, so it changes the queue
TurnEnabled == call = "getMatchingBlocks.while" /\ queue # <<>>

\* WF_vars(Turn), with its ENABLED written out
TurnFair == []<>~TurnEnabled \/ []<><<Turn>>_vars

\* the call runs to its end: each of its steps is taken when it can be
SpecQueue ==
  /\ InitQueue
  /\ [][NextQueue]_vars
  /\ WF_vars(EnterGetMatchingBlocks)
  /\ TurnFair
  /\ WF_vars(LeaveGetMatchingBlocks)

Words == {Str(w) : w \in SeqsUpTo(Chars, MaxWordLen)}
Candidates == SeqsUpTo(Words, MaxCandidates)

\* the choices of n and of cutoff: absent, valid and invalid
MatchesChoices == {None} \cup {Some(n) : n \in -1..MaxCandidates}
CutoffChoices ==
  {None, Some(<<-1, 2>>), Some(<<0, 1>>), Some(<<1, 2>>), Some(<<2, 3>>),
   Some(<<3, 2>>)}

\* the lines of the deltas given to restore, and the choices of which
DeltaLines == {"  a", "- a", "+ b", "? ^", "-", ""}
WhichChoices == 0..3

GetCloseMatches ==
  \E word \in Words, possibilities \in Candidates,
     n \in MatchesChoices, cutoff \in CutoffChoices :
    Do("getCloseMatches", <<word, possibilities, n, cutoff>>,
       getCloseMatches(word, possibilities, n, cutoff))

Restore ==
  \E delta \in SeqsUpTo(DeltaLines, MaxDeltaLen), which \in WhichChoices :
    Do("restore", <<delta, which>>, restore(delta, which))

\* the lines of the lists given to ndiff, and the lists
NdiffLines == {"", "ab", "abb", "\tab", "\tabb", "constructor"}
LineLists == SeqsUpTo(NdiffLines, MaxNdiffLines)

\* the choices of linejunk and charjunk: none, or a predicate true of one
\* line, of one character
LineJunkChoices == {None, Some({"ab"})}
CharJunkChoices == {None, Some({"b"})}

\* the outcome of a call that uses no matcher of its caller
Outside(out) ==
  IF out.threw THEN Thrown(FieldInit) ELSE Returned(FieldInit, out.lines)

Ndiff ==
  \E x \in LineLists, y \in LineLists,
     linejunk \in LineJunkChoices, charjunk \in CharJunkChoices :
    Do("ndiff", <<x, y, linejunk, charjunk>>, Outside(ndiff(x, y, linejunk, charjunk)))

\* one call of a function of the module; the matcher fields show the matcher
\* the function built, if it built one
InitCalls ==
  /\ Install(FieldInit)
  /\ call = "new"
  /\ args = <<>>
  /\ ret = <<>>
  /\ threw = FALSE

\* _formatRangeUnified(start, stop) on a range of lines
FormatRangeUnified ==
  \E stop \in 0..MaxRange, start \in 0..MaxRange :
    /\ start <= stop
    /\ Do("_formatRangeUnified", <<start, stop>>,
          Returned(Self, _formatRangeUnified(start, stop)))

NextCalls ==
  /\ call = "new"
  /\ \/ GetCloseMatches
     \/ Restore
     \/ FormatRangeUnified

SpecCalls == InitCalls /\ [][NextCalls]_vars

\* _fancyReplace of a Differ on the whole of two lists that are not empty
FancyReplace ==
  \E x \in LineLists \ {<<>>}, y \in LineLists \ {<<>>}, charjunk \in CharJunkChoices :
    Do("_fancyReplace", <<x, y, charjunk>>,
       Outside(_fancyReplace(x, 0, Len(x), y, 0, Len(y), charjunk)))

\* one call of ndiff, or of _fancyReplace
NextNdiff ==
  /\ call = "new"
  /\ \/ Ndiff
     \/ FancyReplace

SpecNdiff == InitCalls /\ [][NextNdiff]_vars

-----------------------------------------------------------------------------
(* Properties *)

La == Len(a.elts)
Lb == Len(b.elts)

\* a matcher freshly constructed on the current sequences, and on them swapped
Fresh == Construct(isjunk, a, b, autojunk)
Swapped == Construct(isjunk, b, a, autojunk)

\* what a call gave its caller
Outcome(out) == <<out.threw, out.ret>>

\* C1: realQuickRatio() >= quickRatio() >= ratio() on every matcher whose
\* ratio() returns
C1_RatioOrdering ==
  LET r == ratio(Self)
      q == quickRatio(Self)
      rq == realQuickRatio(Self)
  IN ~r.threw => RatioGeq(rq.ret, q.ret) /\ RatioGeq(q.ret, r.ret)

\* C2: a matcher comparing A with itself has ratio() = 1.0, and its matching
\* blocks are [(0, 0, |A|), (|A|, |A|, 0)] when |A| > 0
C2_SelfRatioIsOne ==
  a.elts = b.elts =>
    /\ call = "ratio" => ~threw /\ RatioEq(ret, <<1, 1>>)
    /\ call = "getMatchingBlocks" /\ La > 0 =>
         ~threw /\ ret = <<<<0, 0, La>>, <<La, La, 0>>>>

C2_Witness ==
  /\ call = "ratio"
  /\ isjunk # None
  /\ a.elts = <<"b", "a", "b">>
  /\ b.elts = a.elts
  /\ ret = <<6, 6>>

\* C3: with A non-empty and B empty ratio() returns 0.0 and getOpcodes()
\* returns [delete 0..|A|]; with both empty ratio() returns 1.0 and
\* getOpcodes() returns the empty list; no call throws
C3_EmptyInputsLegal ==
  /\ call = "ratio" /\ La > 0 /\ Lb = 0 => ~threw /\ RatioEq(ret, <<0, 1>>)
  /\ call = "getOpcodes" /\ La > 0 /\ Lb = 0 =>
       ~threw /\ ret = <<<<"delete", 0, La, 0, 0>>>>
  /\ call = "ratio" /\ La = 0 /\ Lb = 0 => ~threw /\ RatioEq(ret, <<1, 1>>)
  /\ call = "getOpcodes" /\ La = 0 /\ Lb = 0 => ~threw /\ ret = <<>>

\* C4 as stated: with no junk predicate, the matcher on (A, B) and the matcher
\* on (B, A) return the same ratio() (whenever both return)
C4_RatioSymmetric ==
  LET r1 == ratio(Fresh)
      r2 == ratio(Swapped)
  IN isjunk = None /\ ~r1.threw /\ ~r2.threw => RatioEq(r1.ret, r2.ret)

\* C4, amended: the matcher on (A, B) and the matcher on (B, A) return the
\* same quickRatio() and the same realQuickRatio()
C4_QuickRatiosSymmetric ==
  /\ Outcome(quickRatio(Fresh)) = Outcome(quickRatio(Swapped))
  /\ Outcome(realQuickRatio(Fresh)) = Outcome(realQuickRatio(Swapped))
  /\ call = "quickRatio" => Outcome(quickRatio(Swapped)) = <<threw, ret>>
  /\ call = "realQuickRatio" => Outcome(realQuickRatio(Swapped)) = <<threw, ret>>

C4_Witness ==
  /\ call = "quickRatio"
  /\ isjunk = None
  /\ a.elts = <<"a", "a", "b", "a">>
  /\ b.elts = <<"b", "a", "a", "a">>
  /\ ret = <<8, 8>>

\* the blocks before the sentinel
Body(blocks) == SubSeq(blocks, 1, Len(blocks) - 1)

\* C5: getMatchingBlocks() returns a list that ends with the sentinel
\* (|A|, |B|, 0), the only triple of size 0, and whose other triples are
\* strictly ascending in i and in j, do not overlap and do not touch
C5_BlocksWellFormed ==
  call = "getMatchingBlocks" =>
    /\ ~threw
    /\ Len(ret) >= 1
    /\ ret[Len(ret)] = <<La, Lb, 0>>
    /\ \A k \in 1..Len(ret) - 1 : ret[k][3] > 0
    /\ \A k \in 1..Len(ret) - 2 :
         /\ ret[k][1] < ret[k + 1][1]
         /\ ret[k][2] < ret[k + 1][2]
         /\ ret[k][1] + ret[k][3] <= ret[k + 1][1]
         /\ ret[k][2] + ret[k][3] <= ret[k + 1][2]
         /\ ~(ret[k][1] + ret[k][3] = ret[k + 1][1] /\ ret[k][2] + ret[k][3] = ret[k + 1][2])

\* a[i...i+n] and b[j...j+n] are inside lo/hi and equal element by element
Matches(t, alo, ahi, blo, bhi) ==
  /\ alo <= t[1]
  /\ t[1] + t[3] <= ahi
  /\ blo <= t[2]
  /\ t[2] + t[3] <= bhi
  /\ t[3] >= 0
  /\ \A d \in 0..t[3] - 1 : At(a, t[1] + d) = At(b, t[2] + d)

\* C6: every triple returned by getMatchingBlocks() lies inside the sequences,
\* every triple returned by findLongestMatch lies inside its window, and the
\* elements a triple pairs are equal
C6_TriplesMatch ==
  /\ call = "getMatchingBlocks" /\ ~threw =>
       \A k \in 1..Len(ret) : Matches(ret[k], 0, La, 0, Lb)
  /\ call = "findLongestMatch" /\ ~threw =>
       Matches(ret, args[1], args[2], args[3], args[4])

C6_Witness ==
  /\ call = "findLongestMatch"
  /\ ~threw
  /\ isjunk # None
  /\ args = <<1, 3, 0, 3>>
  /\ ret[3] = 2
  /\ ret[2] > 0

C6_WitnessBlocks ==
  /\ call = "getMatchingBlocks"
  /\ ~threw
  /\ Len(ret) = 3

\* the opcodes tile [0, la) x [0, lb)
Tiles(codes, la, lb) ==
  /\ Len(codes) >= 1
  /\ codes[1][2] = 0
  /\ codes[1][4] = 0
  /\ \A k \in 1..Len(codes) - 1 :
       codes[k + 1][2] = codes[k][3] /\ codes[k + 1][4] = codes[k][5]
  /\ codes[Len(codes)][3] = la
  /\ codes[Len(codes)][5] = lb

\* C7: for A and B not both empty getOpcodes() returns a contiguous tiling
\* from (0, 0) to (|A|, |B|)
C7_OpcodesTile ==
  call = "getOpcodes" /\ La + Lb > 0 => ~threw /\ Tiles(ret, La, Lb)

\* the shape of an opcode
Shaped(c) ==
  LET tag == c[1]
      i1 == c[2]
      i2 == c[3]
      j1 == c[4]
      j2 == c[5]
  IN /\ tag \in {"equal", "insert", "delete", "replace"}
     /\ tag = "delete" => j1 = j2 /\ i1 < i2
     /\ tag = "insert" => i1 = i2 /\ j1 < j2
     /\ tag = "replace" => i1 < i2 /\ j1 < j2
     /\ tag = "equal" =>
          /\ i2 - i1 = j2 - j1
          /\ i2 - i1 > 0
          /\ \A d \in 0..(i2 - i1) - 1 : At(a, i1 + d) = At(b, j1 + d)

\* C8: every opcode returned by getOpcodes() has one of the four tags and the
\* shape of its tag
C8_OpcodesShaped ==
  call = "getOpcodes" /\ ~threw => \A k \in 1..Len(ret) : Shaped(ret[k])

\* a call that replaces a sequence
Replaces(name) == name \in {"setSeq1", "setSeq2", "setSeqs"}

\* C9: a call that replaces no sequence leaves what getOpcodes() and
\* getMatchingBlocks() return unchanged (whenever they return)
C9_MemoStable ==
  [][~Replaces(call') =>
       /\ (~getOpcodes(Self).threw /\ ~getOpcodes(Self').threw =>
             getOpcodes(Self').ret = getOpcodes(Self).ret)
       /\ (~getMatchingBlocks(Self).threw /\ ~getMatchingBlocks(Self').threw =>
             getMatchingBlocks(Self').ret = getMatchingBlocks(Self).ret)]_vars

\* C10: getMatchingBlocks(), getOpcodes(), ratio() and quickRatio() give what
\* they give on a matcher freshly constructed on the current sequences
C10_NoStaleCache ==
  /\ Outcome(getMatchingBlocks(Self)) = Outcome(getMatchingBlocks(Fresh))
  /\ Outcome(getOpcodes(Self)) = Outcome(getOpcodes(Fresh))
  /\ Outcome(ratio(Self)) = Outcome(ratio(Fresh))
  /\ Outcome(quickRatio(Self)) = Outcome(quickRatio(Fresh))

\* C11: a call of setSeq1 leaves B, b2j, the junk set, the popular set,
\* fullbcount, isjunk and autojunk as they were (so the index builder did not
\* run), and either nulls both memo slots or, when given the sequence the
\* matcher already holds, changes nothing at all
C11_SetSeq1Frame ==
  [][call' = "setSeq1" =>
       /\ b' = b
       /\ b2j' = b2j
       /\ isbjunk' = isbjunk
       /\ isbpopular' = isbpopular
       /\ fullbcount' = fullbcount
       /\ isjunk' = isjunk
       /\ autojunk' = autojunk
       /\ \/ matchingBlocks' = None /\ opcodes' = None
          \/ Self' = Self]_vars

C11_Witness ==
  /\ call = "setSeq1"
  /\ a.elts = <<"a", "b">>
  /\ fullbcount # None
  /\ b2j = None
  /\ matchingBlocks = None
  /\ opcodes = None

\* the positions of e in B, ascending, 0-indexed
PositionsInB(e) ==
  SelectSeq([i \in 1..Lb |-> i - 1], LAMBDA p : b.elts[p + 1] = e)

\* the elements of B
ElementsOfB == {b.elts[i] : i \in 1..Lb}

\* C12: b2j is defined and maps exactly the elements of B that are neither
\* junk nor popular to the ascending list of all their positions in B; the
\* junk set is the set of the elements of B that isjunk accepts
C12_B2jIndexesB ==
  /\ b2j # None
  /\ isbjunk # None
  /\ isbpopular # None
  /\ isbjunk[1] = {e \in ElementsOfB : isjunk # None /\ e \in isjunk[1]}
  /\ isbpopular[1] \subseteq ElementsOfB \ isbjunk[1]
  /\ DOMAIN b2j[1] = ElementsOfB \ (isbjunk[1] \cup isbpopular[1])
  /\ \A e \in DOMAIN b2j[1] : b2j[1][e] = PositionsInB(e)

\* the triples (i, j, k) inside the windows of the last findLongestMatch whose
\* elements are pairwise equal
CommonBlocks ==
  {t \in (args[1]..args[2]) \X (args[3]..args[4]) \X (0..(args[2] - args[1])) :
     Matches(t, args[1], args[2], args[3], args[4])}

\* t is before u in the order: larger k, then smaller i, then smaller j
Preferred(t, u) ==
  \/ t[3] > u[3]
  \/ t[3] = u[3] /\ t[1] < u[1]
  \/ t[3] = u[3] /\ t[1] = u[1] /\ t[2] <= u[2]

\* C13: with no junk predicate and no popular element, findLongestMatch
\* returns the common block inside the windows with the largest k, then the
\* smallest i, then the smallest j, which is (alo, blo, 0) when the windows
\* share no element
C13_LongestMatchOptimal ==
  call = "findLongestMatch" /\ isjunk = None /\ isbpopular \in {None, Some({})} =>
    /\ ~threw
    /\ ret \in CommonBlocks
    /\ \A t \in CommonBlocks : Preferred(ret, t)

\* x is in the junk set of the matcher
JunkInB(x) == isbjunk # None /\ x \in isbjunk[1]

\* C14 as stated: the block findLongestMatch returns cannot be extended: on
\* its left i = alo or j = blo or A[i-1] # B[j-1], and on its right
\* i+k = ahi or j+k = bhi or A[i+k] # B[j+k]
C14_CannotExtend ==
  call = "findLongestMatch" /\ ~threw =>
    /\ \/ ret[1] = args[1]
       \/ ret[2] = args[3]
       \/ At(a, ret[1] - 1) # At(b, ret[2] - 1)
    /\ \/ ret[1] + ret[3] = args[2]
       \/ ret[2] + ret[3] = args[4]
       \/ At(a, ret[1] + ret[3]) # At(b, ret[2] + ret[3])

\* C14, amended: the block findLongestMatch returns is bordered, on each
\* side, by the end of a window, by a pair of unequal elements, or by a pair
\* of equal elements that are not junk (the junk loops run last and stop
\* there); so it cannot be extended when B holds no junk
C14_StopsAtNonJunk ==
  call = "findLongestMatch" /\ ~threw =>
    /\ \/ ret[1] = args[1]
       \/ ret[2] = args[3]
       \/ At(a, ret[1] - 1) # At(b, ret[2] - 1)
       \/ ~JunkInB(At(b, ret[2] - 1))
    /\ \/ ret[1] + ret[3] = args[2]
       \/ ret[2] + ret[3] = args[4]
       \/ At(a, ret[1] + ret[3]) # At(b, ret[2] + ret[3])
       \/ ~JunkInB(At(b, ret[2] + ret[3]))
    /\ (isbjunk = None \/ isbjunk = Some({})) => C14_CannotExtend

C14_Witness ==
  /\ call = "findLongestMatch"
  /\ ~threw
  /\ isjunk # None
  /\ a.elts = <<"b", "a", "b">>
  /\ b.elts = a.elts
  /\ args = <<0, 3, 0, 3>>
  /\ ret = <<0, 0, 2>>

\* the number of elements of A an opcode spans
Span(c) == c[3] - c[2]

\* a group of getGroupedOpcodes(n) as C15 describes it
GroupShaped(g, n) ==
  /\ \E k \in 1..Len(g) : g[k][1] # "equal"
  /\ g[1][1] = "equal" => Span(g[1]) <= n
  /\ g[Len(g)][1] = "equal" => Span(g[Len(g)]) <= n
  /\ \A k \in 2..Len(g) - 1 : g[k][1] = "equal" => Span(g[k]) <= n + n

\* C15: for n >= 1 every group returned by getGroupedOpcodes(n) holds an
\* opcode that is no equal, starts and ends with at most n elements of equal
\* context, holds no inner equal longer than 2n; the groups ascend and do not
\* overlap
C15_GroupsShaped ==
  call = "getGroupedOpcodes" /\ ~threw /\ args[1] >= 1 =>
    /\ \A k \in 1..Len(ret) : GroupShaped(ret[k], args[1])
    /\ \A k \in 1..Len(ret) - 1 :
         /\ ret[k][Len(ret[k])][3] <= ret[k + 1][1][2]
         /\ ret[k][Len(ret[k])][5] <= ret[k + 1][1][4]

C15_Witness ==
  /\ call = "getGroupedOpcodes"
  /\ ~threw
  /\ args = <<1>>
  /\ Len(ret) = 2

\* the groups a context size gives on the matcher, and on a fresh one
GroupsNow(n) == getGroupedOpcodes(Self, n)
GroupsFresh(n) == getGroupedOpcodes(Fresh, n)

\* C16: whatever calls of getGroupedOpcodes came before, getGroupedOpcodes(n)
\* gives the groups that a matcher freshly constructed on the same sequences
\* gives (whenever that one returns)
C16_GroupsDependOnInputsOnly ==
  \A n \in 0..MaxContext :
    ~GroupsFresh(n).threw => Outcome(GroupsNow(n)) = Outcome(GroupsFresh(n))

\* C17: on identical A and B (both empty included) getGroupedOpcodes(n)
\* returns no group, for every n, and unifiedDiff and contextDiff return the
\* empty list, without header lines
C17_IdenticalGiveNothing ==
  a.elts = b.elts /\ call \in {"getGroupedOpcodes", "unifiedDiff", "contextDiff"} =>
    ~threw /\ ret = <<>>

C17_Witness ==
  /\ call = "unifiedDiff"
  /\ a = Arr(<<"a">>)
  /\ b = a
  /\ ~threw
  /\ ret = <<>>

\* the arguments of the last getCloseMatches, defaults filled in
TheWord == args[1]
ThePossibilities == args[2]
TheMatches == IF args[3] = None THEN DefaultMatches ELSE args[3][1]
TheCutoff == IF args[4] = None THEN DefaultCutoff ELSE args[4][1]
ValidArguments ==
  TheMatches > 0 /\ RatioGeq(TheCutoff, <<0, 1>>) /\ RatioGeq(<<1, 1>>, TheCutoff)

\* C18: getCloseMatches with n <= 0 or with cutoff outside [0, 1] throws,
\* before it builds a matcher, and restore with which other than 1 and 2
\* throws; neither gives a result
C18_InvalidArgumentsThrow ==
  /\ call = "getCloseMatches" /\ ~ValidArguments =>
       threw /\ ret = <<>> /\ Self = FieldInit
  /\ call = "restore" /\ args[2] \notin {1, 2} => threw /\ ret = <<>>

C18_Witness ==
  /\ call = "getCloseMatches"
  /\ threw
  /\ args = <<Str(<<"a">>), <<Str(<<"a">>)>>, Some(0), None>>

\* ratio() of a matcher on (x as A, the word as B) whose index is built
Score(x) == ratio(_chainB([FieldInit EXCEPT !.a = x, !.b = TheWord])).ret
Scored(x) == <<Score(x), x>>

\* the positions of the possibilities whose ratio() is at least the cutoff
Accepted ==
  {k \in 1..Len(ThePossibilities) : RatioGeq(Score(ThePossibilities[k]), TheCutoff)}

\* C19: for valid n and cutoff getCloseMatches returns at most n of the
\* possibilities, each with ratio() at least cutoff, in descending order of
\* (score, candidate); as many as there are such possibilities, up to n; and
\* none left out is above one returned
C19_BestMatchesReturned ==
  call = "getCloseMatches" /\ ValidArguments =>
    /\ ~threw
    /\ Len(ret) = Min(TheMatches, Cardinality(Accepted))
    /\ \A m \in 1..Len(ret) :
         \E k \in Accepted : ThePossibilities[k] = ret[m]
    /\ \A m \in 1..Len(ret) - 1 : ~ScoredLess(Scored(ret[m]), Scored(ret[m + 1]))
    /\ \A k \in Accepted, m \in 1..Len(ret) :
         ScoredLess(Scored(ret[m]), Scored(ThePossibilities[k])) =>
           \E l \in 1..Len(ret) : ret[l] = ThePossibilities[k]

\* C20 as stated: a candidate that getCloseMatches returns has a ratio()
\* above the cutoff, never equal to it
C20_AboveCutoff ==
  call = "getCloseMatches" /\ ~threw =>
    \A m \in 1..Len(ret) : ~RatioEq(Score(ret[m]), TheCutoff)

\* the three bounds of a candidate against the word
Bounds(x) ==
  LET s == _chainB([FieldInit EXCEPT !.a = x, !.b = TheWord])
  IN <<realQuickRatio(s).ret, quickRatio(s).ret, ratio(s).ret>>

\* C20, amended: a candidate is accepted iff its three bounds are at least the
\* cutoff; so one whose ratio() equals the cutoff is returned whenever no more
\* than n candidates are accepted
C20_AtLeastCutoff ==
  call = "getCloseMatches" /\ ~threw =>
    /\ \A m \in 1..Len(ret), i \in 1..3 : RatioGeq(Bounds(ret[m])[i], TheCutoff)
    /\ \A k \in 1..Len(ThePossibilities) :
         /\ \A i \in 1..3 : RatioGeq(Bounds(ThePossibilities[k])[i], TheCutoff)
         /\ Cardinality(Accepted) <= TheMatches
         => \E m \in 1..Len(ret) : ret[m] = ThePossibilities[k]

C20_Witness ==
  /\ call = "getCloseMatches"
  /\ ~threw
  /\ args = <<Str(<<"a", "b">>), <<Str(<<"a">>)>>, Some(1), Some(<<2, 3>>)>>
  /\ ret = <<Str(<<"a">>)>>

-----------------------------------------------------------------------------
(* Differ and ndiff *)

\* C21: ndiff returns, and restore gives back the first list from its delta
\* with 1 and the second with 2, whatever linejunk and charjunk are
C21_RoundTrip ==
  call = "ndiff" =>
    /\ ~threw
    /\ restore(ret, 1).ret = args[1]
    /\ restore(ret, 2).ret = args[2]

\* a delta with a line of each kind: kept, deleted, added, and a guide
C21_Witness ==
  /\ call = "ndiff"
  /\ ~threw
  /\ \A prefix \in {"  ", "- ", "+ ", "? "} :
       \E k \in 1..Len(ret) : SliceTo2(ret[k]) = prefix
  /\ args[3] # None
  /\ args[4] # None

\* the line ends with the suffix
EndsWith(line, suffix) ==
  /\ Len(line) >= Len(suffix)
  /\ SubSeq(line, Len(line) - Len(suffix) + 1, Len(line)) = suffix

\* the line starts with the prefix
StartsWith(line, prefix) ==
  /\ Len(line) >= Len(prefix)
  /\ SubSeq(line, 1, Len(prefix)) = prefix

\* the pairs of positions (i, j) of the two lists of a call of _fancyReplace
Pairs == (0..Len(args[1]) - 1) \X (0..Len(args[2]) - 1)

\* the pairs of identical lines
Identical == {p \in Pairs : args[1][p[1] + 1] = args[2][p[2] + 1]}

\* ratio() of the lines of a pair under the charjunk of the call: 0 when one of
\* them is empty
PairRatio(p) ==
  IF args[1][p[1] + 1] = "" \/ args[2][p[2] + 1] = "" THEN <<0, 1>>
  ELSE ratio(Construct(args[3], CharsOf(args[1][p[1] + 1]),
                       CharsOf(args[2][p[2] + 1]), TRUE)).ret

\* the pairs of lines that are near and not identical
NearPairs == {p \in Pairs \ Identical : RatioGeq(PairRatio(p), <<75, 100>>)}

\* p comes before q in the scan: j is the outer loop, i the inner one
ScannedBefore(p, q) == p[2] < q[2] \/ (p[2] = q[2] /\ p[1] < q[1])

\* the first pair of a set in scan order
FirstOf(S) == CHOOSE p \in S : \A q \in S \ {p} : ScannedBefore(p, q)

\* the near pairs of the highest ratio
BestPairs == {p \in NearPairs : \A q \in NearPairs : RatioGeq(PairRatio(p), PairRatio(q))}

\* the lines of the ranges before and after a sync point, diffed recursively
BeforeSync(p) == _fancyHelper(args[1], 0, p[1], args[2], 0, p[2], args[3]).lines
AfterSync(p) ==
  _fancyHelper(args[1], p[1] + 1, Len(args[1]), args[2], p[2] + 1, Len(args[2]),
               args[3]).lines

\* the lines of a delta that are not guide lines
NoGuides(lines) == SelectSeq(lines, LAMBDA line : ~StartsWith(line, "? "))

\* the lines of a delta between its first `before` and its last `after` lines
Between(lines, before, after) == SubSeq(lines, before + 1, Len(lines) - after)

\* the delta is the lines before the sync point, the two lines of the sync
\* pair with their guides, and the lines after the sync point
SyncedOnNear(p) ==
  /\ Len(ret) >= Len(BeforeSync(p)) + Len(AfterSync(p)) + 2
  /\ SubSeq(ret, 1, Len(BeforeSync(p))) = BeforeSync(p)
  /\ SubSeq(ret, Len(ret) - Len(AfterSync(p)) + 1, Len(ret)) = AfterSync(p)
  /\ Between(ret, Len(BeforeSync(p)), Len(AfterSync(p)))[1] = "- " \o args[1][p[1] + 1]
  /\ NoGuides(Between(ret, Len(BeforeSync(p)), Len(AfterSync(p))))
       = <<"- " \o args[1][p[1] + 1], "+ " \o args[2][p[2] + 1]>>

\* the delta of a plain replace: the shorter list first, the first list on a tie
PlainReplaced ==
  IF Len(args[2]) < Len(args[1])
  THEN ret = [k \in 1..Len(args[2]) |-> "+ " \o args[2][k]]
             \o [k \in 1..Len(args[1]) |-> "- " \o args[1][k]]
  ELSE ret = [k \in 1..Len(args[1]) |-> "- " \o args[1][k]]
             \o [k \in 1..Len(args[2]) |-> "+ " \o args[2][k]]

\* C27: _fancyReplace on two lists that are not empty gives the plain replace
\* when no two lines are near (ratio >= 0.75 and not identical) and no two are
\* identical; it synchronises on the first identical pair in scan order, written
\* once with the prefix "  ", when no two lines are near; and on the near pair of
\* the highest ratio, the first in scan order on a tie, otherwise; the ranges
\* before and after the sync point are diffed recursively
C27_SyncPoint ==
  call = "_fancyReplace" =>
    /\ ~threw
    /\ NearPairs = {} /\ Identical = {} => PlainReplaced
    /\ NearPairs = {} /\ Identical # {} =>
         ret = BeforeSync(FirstOf(Identical))
               \o <<"  " \o args[1][FirstOf(Identical)[1] + 1]>>
               \o AfterSync(FirstOf(Identical))
    /\ NearPairs # {} => SyncedOnNear(FirstOf(BestPairs))

\* two identical pairs and no near pair: the sync point is the first in scan
\* order, ("ab", "ab"), and not the pair of empty lines
C27_Witness ==
  /\ call = "_fancyReplace"
  /\ args[1] = <<"", "ab">>
  /\ args[2] = <<"ab", "">>
  /\ ret = <<"- ", "  ab", "+ ">>

-----------------------------------------------------------------------------
(* unifiedDiff and contextDiff *)

\* the positions of the lines of a diff that start with the prefix
Starting(lines, prefix) == {k \in 1..Len(lines) : StartsWith(lines[k], prefix)}

\* the line terminator of the call
TheLineterm == OrNewline(args[1].lineterm)

\* the positions of the separator lines of a context diff
Separators == {k \in 1..Len(ret) : ret[k] = "***************" \o TheLineterm}

\* the positions of the range lines of the second file of a context diff
ToRanges ==
  {k \in 3..Len(ret) : StartsWith(ret[k], "--- ") /\ EndsWith(ret[k], " ----" \o TheLineterm)}

\* C22: contextDiff writes one separator line for each group of the grouped
\* opcodes, as many as unifiedDiff writes "@@" lines, and each separator is
\* followed by its "*** range ****" line and has its own "--- range ----" line
C22_EveryHunkRendered ==
  call = "contextDiff" /\ ~threw =>
    /\ Cardinality(Separators) = Cardinality(Starting(unifiedDiff(a, b, args[1]).ret, "@@"))
    /\ Cardinality(Separators) = Len(getGroupedOpcodesDefault(Fresh).ret)
    /\ Cardinality(ToRanges) = Cardinality(Separators)
    /\ \A k \in Separators :
         /\ k < Len(ret)
         /\ StartsWith(ret[k + 1], "*** ")
         /\ EndsWith(ret[k + 1], " ****" \o TheLineterm)

\* the context size a call asks for: param.n, 3 when it is absent
TheContext == IF args[1].n = None THEN DefaultContext ELSE args[1].n[1]

\* C23: unifiedDiff and contextDiff render the groups of getGroupedOpcodes(n)
\* for the n of their param, 3 when it is absent
C23_ContextOption ==
  /\ call = "unifiedDiff" /\ ~threw =>
       ret = UnifiedFrom(a, b, args[1], getGroupedOpcodes(Fresh, TheContext)).ret
  /\ call = "contextDiff" /\ ~threw =>
       ret = ContextFrom(a, b, args[1], getGroupedOpcodes(Fresh, TheContext)).ret

\* C24 as stated: an empty range is written as its start alone
C24_EmptyRangeAlone ==
  call = "_formatRangeUnified" =>
    ret = (IF args[2] - args[1] = 1 THEN ToString(args[1] + 1)
           ELSE IF args[2] - args[1] = 0 THEN ToString(args[1])
           ELSE ToString(args[1] + 1) \o "," \o ToString(args[2] - args[1]))

\* C24, amended: _formatRangeUnified(start, stop) is "start+1" for one line,
\* "start,0" for an empty range and "start+1,length" for a longer one
C24_EmptyRangeWithLength ==
  call = "_formatRangeUnified" =>
    ret = (IF args[2] - args[1] = 1 THEN ToString(args[1] + 1)
           ELSE IF args[2] - args[1] = 0 THEN ToString(args[1]) \o ",0"
           ELSE ToString(args[1] + 1) \o "," \o ToString(args[2] - args[1]))

C24_Witness ==
  /\ call = "_formatRangeUnified"
  /\ args = <<2, 2>>
  /\ ret = "2,0"

-----------------------------------------------------------------------------
(* The popularity heuristic *)

\* the number of occurrences of e in B
Occurrences(e) == Cardinality({i \in 1..Lb : b.elts[i] = e})

\* C25: when _chainB has run, an element of B is popular, and is no key of
\* b2j, iff autojunk is on, B has at least 200 elements, the element is not
\* junk and it occurs more than floor(|B|/100) + 1 times in B; so there is no
\* popular element with autojunk off or with less than 200 elements, and no
\* element is both junk and popular
C25_PopularRule ==
  isbpopular # None =>
    /\ isbpopular[1] =
         {e \in ElementsOfB :
            /\ autojunk
            /\ Lb >= 200
            /\ ~(isjunk # None /\ e \in isjunk[1])
            /\ Occurrences(e) > (Lb \div 100) + 1}
    /\ isbpopular[1] \cap DOMAIN b2j[1] = {}
    /\ isbpopular[1] \cap isbjunk[1] = {}
    /\ (~autojunk \/ Lb < 200) => isbpopular[1] = {}

\* a list of 200 lines in which "a" is junk, "b" is popular with 4
\* occurrences, and the lines that occur 3 times are not popular
C25_Witness ==
  /\ call = "setSeq2"
  /\ Lb = 200
  /\ isbjunk = Some({"a"})
  /\ isbpopular = Some({"b"})
  /\ Occurrences("b") = 4
  /\ Occurrences("0") = 3

-----------------------------------------------------------------------------
(* Edge cases of findLongestMatch *)

\* the windows of the last findLongestMatch hold junk only and are equal,
\* element by element
JunkWindows ==
  /\ args[2] - args[1] = args[4] - args[3]
  /\ \A d \in 0..(args[2] - args[1]) - 1 :
       /\ JunkInB(At(a, args[1] + d))
       /\ At(a, args[1] + d) = At(b, args[3] + d)

\* C26: findLongestMatch returns (alo, blo, 0) when one of the windows is
\* empty, and the whole windows (alo, blo, ahi - alo) when they hold junk only
\* and are equal element by element
C26_EdgeCases ==
  call = "findLongestMatch" =>
    /\ (args[1] = args[2] \/ args[3] = args[4]) =>
         ~threw /\ ret = <<args[1], args[3], 0>>
    /\ JunkWindows =>
         ~threw /\ ret = <<args[1], args[3], args[2] - args[1]>>

-----------------------------------------------------------------------------
(* The work queue of getMatchingBlocks *)

\* the window popped in a turn of the work loop, and the positions of the
\* windows pushed in it
Popped == queue[Len(queue)]
Pushed == Len(queue)..Len(queue')

\* the number of elements of a window, on both sides
Size(w) == (w[2] - w[1]) + (w[4] - w[3])

\* a turn of the work loop leaves the rest of the queue as it is, and every
\* window it pushes is not empty on either side, lies inside the window
\* popped, and is strictly smaller
TurnShrinks ==
  call = "getMatchingBlocks.while" /\ call' = "getMatchingBlocks.while" =>
    /\ Len(queue') >= Len(queue) - 1
    /\ SubSeq(queue', 1, Len(queue) - 1) = SubSeq(queue, 1, Len(queue) - 1)
    /\ \A k \in Pushed :
         /\ queue'[k][1] < queue'[k][2]
         /\ queue'[k][3] < queue'[k][4]
         /\ Popped[1] <= queue'[k][1]
         /\ queue'[k][2] <= Popped[2]
         /\ Popped[3] <= queue'[k][3]
         /\ queue'[k][4] <= Popped[4]
         /\ Size(queue'[k]) < Size(Popped)

RECURSIVE BlocksOf(_)

\* the blocks of window w, given its longest match x: x, the blocks of the
\* window on its left and those of the window on its right, in no order
BlocksFrom(w, x) ==
  IF x.threw \/ x.ret[3] = 0 THEN {}
  ELSE {x.ret}
       \cup (IF w[1] < x.ret[1] /\ w[3] < x.ret[2]
             THEN BlocksOf(<<w[1], x.ret[1], w[3], x.ret[2]>>) ELSE {})
       \cup (IF x.ret[1] + x.ret[3] < w[2] /\ x.ret[2] + x.ret[3] < w[4]
             THEN BlocksOf(<<x.ret[1] + x.ret[3], w[2], x.ret[2] + x.ret[3], w[4]>>)
             ELSE {})

BlocksOf(w) == BlocksFrom(w, findLongestMatch(Self, w[1], w[2], w[3], w[4]))

\* when the queue is empty the blocks found are those of the whole of both
\* sequences, each once: what any order of the windows gives
OrderFree ==
  call = "getMatchingBlocks.while" /\ queue = <<>> =>
    /\ {found[k] : k \in 1..Len(found)} = BlocksOf(<<0, La, 0, Lb>>)
    /\ Len(found) = Cardinality(BlocksOf(<<0, La, 0, Lb>>))

\* C28: getMatchingBlocks comes to its end; every window its work loop pushes
\* is not empty on either side and strictly smaller than the window it was
\* split from; and the blocks it finds do not depend on the order in which
\* the windows are taken from the queue
C28_QueueDrains ==
  /\ [][TurnShrinks]_vars
  /\ []OrderFree
  /\ <>(call = "getMatchingBlocks")

\* a turn that pushes the window on the left and the window on the right of
\* the block it found
C28_Witness ==
  /\ call = "getMatchingBlocks.while"
  /\ a = Str(<<"b", "a", "b", "a">>)
  /\ b = Str(<<"a", "a", "b", "b">>)
  /\ found = <<<<1, 1, 2>>>>
  /\ queue = <<<<0, 1, 0, 1>>, <<3, 4, 3, 4>>>>

-----------------------------------------------------------------------------
(* The opcodes and the matching blocks *)

\* the equal opcodes of a list, in order, as triples (i, j, n)
RECURSIVE EqualTriples(_, _)
EqualTriples(codes, k) ==
  IF k > Len(codes) THEN <<>>
  ELSE (IF codes[k][1] = "equal"
        THEN <<<<codes[k][2], codes[k][4], codes[k][3] - codes[k][2]>>>>
        ELSE <<>>)
       \o EqualTriples(codes, k + 1)

\* the matching blocks once getMatchingBlocks() gave m
BlocksAre(m, triples) == ~m.threw /\ Body(m.ret) = triples

\* C29: in the list getOpcodes() returns, of two adjacent opcodes one is an
\* equal and the other is not, and the equal opcodes are, in order, the
\* matching blocks before the sentinel
C29_OpcodesAlternate ==
  call = "getOpcodes" /\ ~threw =>
    /\ \A k \in 1..Len(ret) - 1 : (ret[k][1] = "equal") # (ret[k + 1][1] = "equal")
    /\ BlocksAre(getMatchingBlocks(Self), EqualTriples(ret, 1))

-----------------------------------------------------------------------------
(* The hunks of unifiedDiff *)

\* the positions of the "@@" lines of a unified diff, and the m-th of them
Headers == Starting(ret, "@@")
NthHeader(m) == CHOOSE p \in Headers : Cardinality({h \in Headers : h <= p}) = m

\* the position of the last line of the m-th hunk
HunkEnd(m) ==
  IF m = Cardinality(Headers) THEN Len(ret) ELSE NthHeader(m + 1) - 1

\* the number of lines of the body of the m-th hunk that start with one of
\* the prefixes
BodyCount(m, prefixes) ==
  Cardinality({k \in (NthHeader(m) + 1)..HunkEnd(m) : SubSeq(ret[k], 1, 1) \in prefixes})

\* the opcodes of a group follow one another
Contiguous(group) ==
  \A k \in 1..Len(group) - 1 :
    group[k + 1][2] = group[k][3] /\ group[k + 1][4] = group[k][5]

\* the m-th hunk against its group
HunkConsistent(m, group) ==
  /\ Contiguous(group)
  /\ ret[NthHeader(m)] =
       "@@ -" \o _formatRangeUnified(group[1][2], group[Len(group)][3])
       \o " +" \o _formatRangeUnified(group[1][4], group[Len(group)][5])
       \o " @@" \o TheLineterm
  /\ BodyCount(m, {" ", "-"}) = group[Len(group)][3] - group[1][2]
  /\ BodyCount(m, {" ", "+"}) = group[Len(group)][5] - group[1][4]
  /\ BodyCount(m, {" ", "-", "+"}) = HunkEnd(m) - NthHeader(m)

\* a unified diff against the groups it renders: nothing for no group, else
\* the two header lines, once, and then one hunk for each group
HunksConsistent(groups) ==
  IF groups = <<>> THEN ret = <<>>
  ELSE /\ Len(ret) >= 3
       /\ StartsWith(ret[1], "--- ")
       /\ StartsWith(ret[2], "+++ ")
       /\ Cardinality(Headers) = Len(groups)
       /\ NthHeader(1) = 3
       /\ \A m \in 1..Len(groups) : HunkConsistent(m, groups[m])

\* C30: in the output of unifiedDiff the lines "---" and "+++" come once,
\* before the first hunk, and every hunk agrees with its header: its opcodes
\* follow one another from (first.i1, first.j1) to (last.i2, last.j2), its
\* body has last.i2 - first.i1 lines that start with " " or "-" and
\* last.j2 - first.j1 lines that start with " " or "+", and no other line
C30_HunksConsistent ==
  call = "unifiedDiff" /\ ~threw =>
    HunksConsistent(getGroupedOpcodesDefault(Fresh).ret)

\* two hunks, the first with a replace whose deleted line starts with "-"
C30_Witness ==
  /\ call = "unifiedDiff"
  /\ ~threw
  /\ Cardinality(Headers) = 2
  /\ \E k \in 1..Len(ret) : ret[k] = "--b"
  /\ \E k \in 1..Len(ret) : ret[k] = "+a"

====
